---------------------------- MODULE Spec2Model ----------------------------
(***************************************************************************)
(* Force-Measurement (LIMB): the grip-force experiment runner              *)
(* (Force_Measurement_LIMBmk4.py, class ForceExperimentTab) as a state     *)
(* machine.  One action per Qt handler: the Start button                   *)
(* (start_experiment), the 5 ms QTimer (update_plot), the break's          *)
(* single-shot timer (prepare_next_array), the Load MVC button             *)
(* (load_last_mvc) and the window close (closeEvent).                      *)
(*                                                                         *)
(* Time is in whole seconds.  The wall clock (time.time()) is `now`; it    *)
(* advances when a timer fires.  A CSV row is modelled without its         *)
(* timestamp column (the LSL clock is outside the program); a plot deque   *)
(* is modelled by whether it is empty and by its newest element, the only  *)
(* element the handlers read back.                                         *)
(*                                                                         *)
(* The module also holds the two other programs of the repository, each    *)
(* with its own variables and specification: the MVC calibration tool      *)
(* (MVC_Measurement_LIMB.py: GDXForceSensor and MVCExperiment, with the    *)
(* sensor worker thread, the force thread and the GUI thread) and the      *)
(* plotting script gdxtest.py (worker thread, bounded queue, animation).   *)
(* A program that is not launched in a specification keeps its variables   *)
(* at their pre-launch values.                                             *)
(***************************************************************************)
EXTENDS Integers, Sequences, FiniteSets, TLC

VARIABLES
    now,                        \* time.time()
    start_time,                 \* self.start_time
    time_elapsed,               \* self.time_elapsed
    trial_start_time,           \* self.trial_start_time
    trial_array1,               \* self.trial_array1
    trial_array2,               \* self.trial_array2
    phase_events_logged,        \* self.phase_events_logged
    csv_log,                    \* rows appended to self.csv_filename
    current_section,            \* self.current_section
    trial_in_progress,          \* self.trial_in_progress
    experiment_ended,           \* self.experiment_ended
    experiment_running,         \* self.experiment_running
    current_trial_array,        \* 1: trial_array1, 2: trial_array2
    current_trial_index,        \* self.current_trial_index (0-based)
    current_trial_id,           \* self.current_trial_id
    full_grasp_mvc,             \* self.full_grasp_mvc
    pinchOne_mvc,               \* self.pinchOne_mvc
    pinchTwo_mvc,               \* self.pinchTwo_mvc
    force_data,                 \* deque(maxlen=max_samples)
    time_data,                  \* deque(maxlen=max_samples)
    trapezoid_main_time_data,   \* deque(maxlen=max_samples)
    trapezoid_main_force_data,  \* deque(maxlen=max_samples)
    timer_active,               \* self.timer is running
    break_timers,               \* due times of pending QTimer.singleShot calls
    gdx_state,                  \* the device handle: "started" or "closed"
    outlet,                     \* the sample pushed last to the LSL outlet
    window_closed,              \* closeEvent has run (the application exits)
    crashed,                    \* the exception that escaped a handler, or "none"
    starts,                     \* number of Start presses so far
    bad_reads,                  \* number of ticks whose gdx.read() gave no sample
    trial_began                 \* time.time() when the current trial began, or NoneTime

\* MVC_Measurement_LIMB.py
VARIABLES
    mvc_main,                   \* position of the main (GUI) thread
    mvc_exception,              \* the exception that ended the program, or "none"
    gdx_device,                 \* GDXForceSensor.gdx_device: its handle's state
    latest_value,               \* GDXForceSensor.latest_value
    sensor_data_queue,          \* GDXForceSensor.data_queue
    stop_event,                 \* GDXForceSensor.stop_event
    sensor_thread,              \* position of GDXForceSensor.thread
    sensor_stop_event,          \* MVCExperiment.sensor_stop_event
    force_thread,               \* state of MVCExperiment.force_thread
    force_queue,                \* MVCExperiment.force_queue
    phase,                      \* MVCExperiment.phase
    global_start_time,          \* MVCExperiment.global_start_time
    mvc_time_data,              \* MVCExperiment.time_data
    mvc_force_data,             \* MVCExperiment.force_data
    results,                    \* MVCExperiment.results
    motion_index,               \* motion_dropdown.currentIndex()
    start_enabled,              \* start_button.isEnabled()
    mvc_timer_active,           \* MVCExperiment.timer is running
    blink_timer_active,         \* MVCExperiment.blink_timer is running
    single_shots,               \* pending QTimer.singleShot calls, by due time
    mvc_label,                  \* the three values shown by mvc_value_label
    saved_rows,                 \* rows appended to mvc_results.csv
    mvc_starts,                 \* runs of start_experiment past its guard
    started_motion              \* currentIndex() when the last run was started

\* gdxtest.py
VARIABLES
    gdxtest_main,               \* position of the main thread of the script
    gdxtest_device,             \* gdx_device: its handle's state
    gdxtest_stop_event,         \* stop_event
    gdxtest_thread,             \* position of the thread sensor_reading_thread
    gdxtest_reads,              \* measurements the device has returned
    data_queue,                 \* data_queue
    y_data                      \* the newest point of y_data

force_vars ==
        << start_time, time_elapsed, trial_start_time, trial_array1,
           trial_array2, phase_events_logged, csv_log, current_section,
           trial_in_progress, experiment_ended, experiment_running,
           current_trial_array, current_trial_index, current_trial_id,
           full_grasp_mvc, pinchOne_mvc, pinchTwo_mvc, force_data, time_data,
           trapezoid_main_time_data, trapezoid_main_force_data, timer_active,
           break_timers, gdx_state, outlet, window_closed, crashed, starts,
           bad_reads, trial_began >>

mvc_vars ==
        << mvc_main, mvc_exception, gdx_device, latest_value,
           sensor_data_queue, stop_event, sensor_thread, sensor_stop_event, force_thread, force_queue, phase,
           global_start_time, mvc_time_data, mvc_force_data, results,
           motion_index, start_enabled, mvc_timer_active, blink_timer_active, single_shots,
           mvc_label, saved_rows, mvc_starts, started_motion >>

gdxtest_vars ==
        << gdxtest_main, gdxtest_device, gdxtest_stop_event, gdxtest_thread,
           gdxtest_reads, data_queue, y_data >>

\* The variables of the programs other than the force experiment.
other_programs == << mvc_vars, gdxtest_vars >>

vars == << now, start_time, time_elapsed, trial_start_time, trial_array1,
           trial_array2, phase_events_logged, csv_log, current_section,
           trial_in_progress, experiment_ended, experiment_running,
           current_trial_array, current_trial_index, current_trial_id,
           full_grasp_mvc, pinchOne_mvc, pinchTwo_mvc, force_data, time_data,
           trapezoid_main_time_data, trapezoid_main_force_data, timer_active,
           break_timers, gdx_state, outlet, window_closed, crashed, starts,
           bad_reads, trial_began, other_programs >>

-----------------------------------------------------------------------------
(* Bounds of the model *)

\* Trials of a block that the model runs: a block is the first
\* TrialsPerBlock entries of a shuffled 60-entry trial list.
TrialsPerBlock == 2

\* Start presses explored in one session.
MaxStarts == 3

\* Ticks of one session on which gdx.read() returns no usable sample.
MaxBadReads == 1

\* Seconds of wall-clock time explored after launch.
Horizon == 480

\* time.time() at launch.
EpochStart == 1000

\* Seconds between two timer ticks (a stalled GUI makes a tick long).
TickSteps == {5, 10}

\* Raw force readings of channel 1 (Newtons).
RawForces == {60}

-----------------------------------------------------------------------------
(* Constants of the program *)

\* QTimer.singleShot(5 * 60 * 1000, ...), in seconds
BreakSeconds == (5 * 60 * 1000) \div 1000

NoneTime == 0 - 1

GRIPS == << "IndexPinch", "MiddlePinch", "FullGrasp" >>

\* the level strings "20", "40", "60", "80" as digit sequences
MVCS == << <<2, 0>>, <<4, 0>>, <<6, 0>>, <<8, 0>> >>

Repeats == 5

\* f"{grip}{mvc}"
FormatTrialId(grip, mvc) == [grip |-> grip, mvc |-> mvc]

\* the empty trial id of a section row
NoTrial == [grip |-> "", mvc |-> << >>]

\* int(trial_id[-2:])
IntOfLastTwo(id) ==
    LET s == id.mvc
    IN  s[Len(s) - 1] * 10 + s[Len(s)]

\* trial_id.startswith(prefix), for a prefix that is a whole grip name
StartsWith(id, prefix) == id.grip = prefix

\* `conditions` as the comment above the loops describes it ("10 trials
\* each"): range(10) in the innermost loop, 120 entries.
conditions_TenRepeats ==
    [i \in 1..(Len(GRIPS) * Len(MVCS) * (2 * Repeats)) |->
        FormatTrialId(GRIPS[((i - 1) \div (Len(MVCS) * (2 * Repeats))) + 1],
                      MVCS[(((i - 1) \div (2 * Repeats)) % Len(MVCS)) + 1])]

\* The nested loops that build `conditions`: grip, then level, then repeat.
conditions ==
    [i \in 1..(Len(GRIPS) * Len(MVCS) * Repeats) |->
        FormatTrialId(GRIPS[((i - 1) \div (Len(MVCS) * Repeats)) + 1],
                      MVCS[(((i - 1) \div Repeats) % Len(MVCS)) + 1])]

\* Outcomes of random.shuffle(conditions) that the model draws from: the
\* permutations i -> offset + 7*i (mod 60); 7 is coprime to 60.
\* The pairs of shuffles (of trial list 1, of trial list 2) drawn in Init.
ShufflePairs == { <<0, 38>>, <<38, 0>> }

Shuffle(offset) ==
    [i \in 1..Len(conditions) |->
        conditions[((offset + (i - 1) * 7) % Len(conditions)) + 1]]

TrialBlock(offset) == SubSeq(Shuffle(offset), 1, TrialsPerBlock)


-----------------------------------------------------------------------------
(* Numbers.  A Python float is modelled by an exact fraction n/d, d > 0. *)

Rat(n, d) == IF d < 0 THEN [n |-> 0 - n, d |-> 0 - d] ELSE [n |-> n, d |-> d]

RInt(k) == [n |-> k, d |-> 1]

RLt(a, b) == a.n * b.d < b.n * a.d

RLe(a, b) == a.n * b.d <= b.n * a.d

REq(a, b) == a.n * b.d = b.n * a.d

RMul(a, b) == Rat(a.n * b.n, a.d * b.d)

RSub(a, b) == Rat(a.n * b.d - b.n * a.d, a.d * b.d)

\* Python's min(a, b): b when b < a, else a
PyMin(a, b) == IF RLt(b, a) THEN b ELSE a

\* Python's max(a, b): b when b > a, else a
PyMax(a, b) == IF RLt(a, b) THEN b ELSE a

-----------------------------------------------------------------------------
(* Containers *)

\* deque.clear(), and the deque after construction
EmptyDeque(zero) == [empty |-> TRUE, last |-> zero]

\* deque.append(x)
DequeAppend(q, x) == [empty |-> FALSE, last |-> x]

NoMeasurement == [none |-> TRUE, vals |-> << >>]

Sample(vals) == [none |-> FALSE, vals |-> vals]

\* What gdx.read() can return on a tick: None, a short list, or the four
\* channels.
Measurements ==
    {NoMeasurement} \cup { Sample(<<r, 0, 0>>) : r \in {0} }
                    \cup { Sample(<<r, 0, 0, 0>>) : r \in RawForces }

-----------------------------------------------------------------------------
(* log_event, check_phase_boundaries, get_reference_force *)

Row(section, event, trial_id) ==
    [section |-> section, event |-> event, trial_id |-> trial_id]

log_event(log, section, event, trial_id) ==
    Append(log, Row(section, event, trial_id))

phase_events ==
    << [boundary |-> 0,  event |-> "RestPhaseStart"],
       [boundary |-> 5,  event |-> "RestPhaseStop"],
       [boundary |-> 5,  event |-> "GetReadyStart"],
       [boundary |-> 10, event |-> "GetReadyStop"],
       [boundary |-> 10, event |-> "RampUpPhaseStart"],
       [boundary |-> 15, event |-> "RampUpPhaseStop"],
       [boundary |-> 15, event |-> "HoldPhaseStart"],
       [boundary |-> 25, event |-> "HoldPhaseStop"],
       [boundary |-> 25, event |-> "RampDownPhaseStart"],
       [boundary |-> 30, event |-> "RampDownPhaseStop"] >>

\* PhaseStep with the boundary test written `>`: an event does not fire on
\* the tick that lands exactly on its offset.
PhaseStep_StrictBoundary(acc, pe, cycle_time, section, trial_id) ==
    IF cycle_time > pe.boundary /\ pe.event \notin acc.logged
    THEN [log    |-> log_event(acc.log, section, pe.event, trial_id),
          logged |-> acc.logged \cup {pe.event}]
    ELSE acc

\* One iteration of the for loop of check_phase_boundaries.
PhaseStep(acc, pe, cycle_time, section, trial_id) ==
    IF cycle_time >= pe.boundary /\ pe.event \notin acc.logged
    THEN [log    |-> log_event(acc.log, section, pe.event, trial_id),
          logged |-> acc.logged \cup {pe.event}]
    ELSE acc

RECURSIVE PhaseLoop(_, _, _, _, _)
PhaseLoop(i, acc, cycle_time, section, trial_id) ==
    IF i > Len(phase_events)
    THEN acc
    ELSE PhaseLoop(i + 1,
                   PhaseStep(acc, phase_events[i], cycle_time, section, trial_id),
                   cycle_time, section, trial_id)

\* The log and the fired set after check_phase_boundaries(cycle_time).
check_phase_boundaries(cycle_time, log, logged, section, trial_id) ==
    PhaseLoop(1, [log |-> log, logged |-> logged], cycle_time, section, trial_id)

\* get_reference_force with the ramp-down branch rising instead of falling.
get_reference_force_RisingRampDown(t, trial_id) ==
    LET level == IntOfLastTwo(trial_id)
    IN  IF 0 <= t /\ t < 10 THEN RInt(0)
        ELSE IF 10 <= t /\ t < 15 THEN Rat(level * (t - 10), 100 * 5)
        ELSE IF 15 <= t /\ t < 25 THEN Rat(level, 100)
        ELSE IF 25 <= t /\ t < 30 THEN Rat(level * (t - 25), 100 * 5)
        ELSE RInt(0)

get_reference_force(t, trial_id) ==
    LET level == IntOfLastTwo(trial_id)     \* mvc_normalized = level / 100
    IN  IF 0 <= t /\ t < 10 THEN RInt(0)
        ELSE IF 10 <= t /\ t < 15 THEN Rat(level * (t - 10), 100 * 5)
        ELSE IF 15 <= t /\ t < 25 THEN Rat(level, 100)
        ELSE IF 25 <= t /\ t < 30 THEN Rat(level * (5 - (t - 25)), 100 * 5)
        ELSE RInt(0)

\* MaxForce with the two pinch references exchanged.
MaxForce_PinchSwapped(trial_id) ==
    IF StartsWith(trial_id, "FullGrasp") THEN full_grasp_mvc
    ELSE IF StartsWith(trial_id, "IndexPinch") THEN pinchTwo_mvc
    ELSE IF StartsWith(trial_id, "MiddlePinch") THEN pinchOne_mvc
    ELSE full_grasp_mvc

\* MAX_FORCE of update_plot
MaxForce(trial_id) ==
    IF StartsWith(trial_id, "FullGrasp") THEN full_grasp_mvc
    ELSE IF StartsWith(trial_id, "IndexPinch") THEN pinchOne_mvc
    ELSE IF StartsWith(trial_id, "MiddlePinch") THEN pinchTwo_mvc
    ELSE full_grasp_mvc

MIN_FORCE == 0

\* Normalize without the lower clamp: min(new_force, 1) only.
Normalize_NoLowerClamp(raw_force, max_force) ==
    PyMin(Rat(raw_force - MIN_FORCE, max_force - MIN_FORCE), RInt(1))

\* new_force = (raw - MIN_FORCE) / (MAX_FORCE - MIN_FORCE);
\* new_force = max(0, min(new_force, 1)).  Defined for MAX_FORCE # MIN_FORCE.
Normalize(raw_force, max_force) ==
    PyMax(RInt(0), PyMin(Rat(raw_force - MIN_FORCE, max_force - MIN_FORCE), RInt(1)))

\* The branches of update_phase_instruction: phase name and the interval
\* lo <= cycle_time < hi of its test.
phase_intervals ==
    << [phase |-> "Rest",     lo |-> 0,  hi |-> 5],
       [phase |-> "Ready",    lo |-> 5,  hi |-> 10],
       [phase |-> "RampUp",   lo |-> 10, hi |-> 15],
       [phase |-> "Hold",     lo |-> 15, hi |-> 25],
       [phase |-> "RampDown", lo |-> 25, hi |-> 30] >>

CurrentArray == IF current_trial_array = 1 THEN trial_array1 ELSE trial_array2

-----------------------------------------------------------------------------
(* The calibration table read by load_last_participant_mvc.  A cell of the *)
(* last row is a number, a non-numeric string ("text", the empty string    *)
(* included), None (the row is shorter than the header) or absent (the     *)
(* header has no such column).                                             *)

Num(v) == [k |-> "num", v |-> v]

TextCell == [k |-> "text", v |-> 0]

NoneCell == [k |-> "None", v |-> 0]

AbsentCell == [k |-> "absent", v |-> 0]

\* mvc_data is None: no file, or a file without data rows
NoMvcData == [present |-> FALSE, fg |-> AbsentCell, p1 |-> AbsentCell, p2 |-> AbsentCell]

MvcRow(fg, p1, p2) == [present |-> TRUE, fg |-> fg, p1 |-> p1, p2 |-> p2]

\* float(mvc_data.get(key, '100')) inside try/except ValueError:
\* "ok" with the value, or "raise" when float() raises TypeError.
ParseMvc(cell) ==
    IF cell.k = "num" THEN [r |-> "ok", v |-> cell.v]
    ELSE IF cell.k = "absent" THEN [r |-> "ok", v |-> 100]
    ELSE IF cell.k = "text" THEN [r |-> "ok", v |-> 100]
    ELSE [r |-> "raise", v |-> 0]

\* calculate_mvc_percentages: float(mvc_data[motion]) raises ValueError on
\* a non-numeric string.
PercentagesRaise(data) ==
    \E c \in {data.fg, data.p1, data.p2} : c.k = "text"

-----------------------------------------------------------------------------
(* MVC calibration tool: values and the state before launch *)

\* Python's None, and a value that is not None.
None == << >>

Some(x) == << x >>

\* queue.Queue(): its entries in arrival order, oldest first.
EmptyQueue == << >>

\* Queue.put(x) on an unbounded queue of which the newest `keep` entries
\* are tracked: the older ones are dropped from the front.  A queue that is
\* only ever drained to its last entry needs keep = 1, a queue that is never
\* read needs keep = 0.
QueuePut(keep, q, x) ==
    LET s == Append(q, x)
    IN  IF Len(s) > keep THEN SubSeq(s, Len(s) - keep + 1, Len(s)) ELSE s

\* The loop as it would be if it stopped after its first get().
DrainQueue_FirstWins(q, new_force) ==
    IF q = EmptyQueue THEN new_force ELSE Head(q)

\* update_measurement's loop `while not force_queue.empty(): _, new_force =
\* force_queue.get()`: new_force after the loop.
RECURSIVE DrainQueue(_, _)
DrainQueue(q, new_force) ==
    IF q = EmptyQueue THEN new_force ELSE DrainQueue(Tail(q), Head(q))

\* results = {}
EmptyResults == [k \in {} |-> RInt(0)]

\* update_mvc_label(trial1, trial2, overall)
MvcLabel(trial1, trial2, overall) ==
    [trial1 |-> trial1, trial2 |-> trial2, overall |-> overall]

\* The MVC tool before `python MVC_Measurement_LIMB.py` has run.
MvcNotLaunched ==
    /\ mvc_main = "launch"
    /\ mvc_exception = "none"
    /\ gdx_device = "unopened"
    /\ latest_value = 0
    /\ sensor_data_queue = EmptyQueue
    /\ stop_event = FALSE
    /\ sensor_thread = "unstarted"
    /\ sensor_stop_event = FALSE
    /\ force_thread = "unstarted"
    /\ force_queue = EmptyQueue
    /\ phase = "None"
    /\ global_start_time = NoneTime
    /\ mvc_time_data = << >>
    /\ mvc_force_data = << >>
    /\ results = EmptyResults
    /\ motion_index = 0
    /\ start_enabled = TRUE
    /\ mvc_timer_active = FALSE
    /\ blink_timer_active = FALSE
    /\ started_motion = 0
    /\ single_shots = << >>
    /\ mvc_label = MvcLabel(None, None, None)
    /\ saved_rows = << >>
    /\ mvc_starts = 0

\* gdxtest.py before `python gdxtest.py` has run.
GdxtestNotLaunched ==
    /\ gdxtest_main = "launch"
    /\ gdxtest_device = "unopened"
    /\ gdxtest_stop_event = FALSE
    /\ gdxtest_thread = "unstarted"
    /\ gdxtest_reads = 0
    /\ data_queue = << >>
    /\ y_data = RInt(0)

-----------------------------------------------------------------------------
(* Initial state: the state after ForceExperimentTab.__init__ *)

\* The state after __init__ with the two shuffled trial lists a1 and a2.
InitBlocks(a1, a2) ==
    /\ now = EpochStart
    /\ start_time = NoneTime
    /\ time_elapsed = 0
    /\ trial_start_time = 0
    /\ trial_array1 = a1
    /\ trial_array2 = a2
    /\ phase_events_logged = {}
    /\ csv_log = << >>
    /\ current_section = 1
    /\ trial_in_progress = FALSE
    /\ experiment_ended = FALSE
    /\ experiment_running = FALSE
    /\ current_trial_array = 1
    /\ current_trial_index = 0
    /\ current_trial_id = trial_array1[1]
    /\ full_grasp_mvc = 100
    /\ pinchOne_mvc = 100
    /\ pinchTwo_mvc = 100
    /\ force_data = EmptyDeque(RInt(0))
    /\ time_data = EmptyDeque(0)
    /\ trapezoid_main_time_data = EmptyDeque(0)
    /\ trapezoid_main_force_data = EmptyDeque(RInt(0))
    /\ timer_active = FALSE
    /\ break_timers = << >>
    /\ gdx_state = "started"
    /\ outlet = << >>
    /\ window_closed = FALSE
    /\ crashed = "none"
    /\ starts = 0
    /\ bad_reads = 0
    /\ trial_began = NoneTime
    /\ MvcNotLaunched
    /\ GdxtestNotLaunched

\* The state after __init__ when the two shuffles came out as sp.
InitShuffled(sp) == InitBlocks(TrialBlock(sp[1]), TrialBlock(sp[2]))

Init == \E sp \in ShufflePairs : InitShuffled(sp)

\* The event loop dispatches handlers until the window closes or an
\* exception escapes a slot (PyQt5 aborts the process).
Alive == ~window_closed /\ crashed = "none"

arrays == << trial_array1, trial_array2 >>

mvcs == << full_grasp_mvc, pinchOne_mvc, pinchTwo_mvc >>

deques == << force_data, time_data, trapezoid_main_time_data,
             trapezoid_main_force_data >>

-----------------------------------------------------------------------------
(* Handlers *)

\* start_trial, called at the end of update_plot with the log so far and
\* the elapsed time and index of this tick.
start_trial(log, te, index, in_progress) ==
    IF ~experiment_running \/ in_progress
    THEN /\ phase_events_logged' = {}
         /\ trial_in_progress' = in_progress
         /\ csv_log' = log
         /\ UNCHANGED << current_trial_id, trial_start_time, trial_began >>
    ELSE /\ trial_in_progress' = TRUE
         /\ current_trial_id' = CurrentArray[index + 1]
         /\ trial_start_time' = te
         /\ trial_began' = now'
         /\ csv_log' = log_event(log, current_section, "TrialStart",
                                 CurrentArray[index + 1])
         /\ phase_events_logged' = {}

\* start_experiment: the Start button.
start_experiment ==
    /\ Alive
    /\ UNCHANGED other_programs
    /\ starts < MaxStarts
    /\ starts' = starts + 1
    /\ csv_log' = log_event(csv_log, current_section, "SectionStart", NoTrial)
    /\ experiment_running' = TRUE
    /\ start_time' = now
    /\ trial_start_time' = 0
    /\ time_elapsed' = 0
    /\ trial_began' = IF trial_began = NoneTime THEN now ELSE trial_began
    /\ force_data' = EmptyDeque(RInt(0))
    /\ time_data' = EmptyDeque(0)
    /\ trapezoid_main_time_data' = EmptyDeque(0)
    /\ trapezoid_main_force_data' = EmptyDeque(RInt(0))
    /\ timer_active' = TRUE
    /\ UNCHANGED << now, arrays, phase_events_logged, current_section,
                    trial_in_progress, experiment_ended, current_trial_array,
                    current_trial_index, current_trial_id, mvcs, break_timers,
                    gdx_state, outlet, window_closed, crashed, bad_reads >>

\* stop_experiment without the experiment_ended latch in its guard.
stop_experiment_NoLatch(log) ==
    IF ~experiment_running
    THEN /\ csv_log' = log
         /\ UNCHANGED << experiment_ended, experiment_running, timer_active,
                         gdx_state >>
    ELSE /\ csv_log' = log_event(log, current_section, "SectionStop", NoTrial)
         /\ experiment_ended' = TRUE
         /\ experiment_running' = FALSE
         /\ timer_active' = FALSE
         /\ gdx_state' = "closed"

\* stop_experiment, continuing from the log so far.
stop_experiment(log) ==
    IF ~experiment_running \/ experiment_ended
    THEN /\ csv_log' = log
         /\ UNCHANGED << experiment_ended, experiment_running, timer_active,
                         gdx_state >>
    ELSE /\ csv_log' = log_event(log, current_section, "SectionStop", NoTrial)
         /\ experiment_ended' = TRUE
         /\ experiment_running' = FALSE
         /\ timer_active' = FALSE
         /\ gdx_state' = "closed"

\* start_break without the single-shot timer of the break.
start_break_NoSingleShot(log) ==
    /\ csv_log' = log_event(log_event(log, current_section, "SectionStop", NoTrial),
                            current_section, "BreakStart", NoTrial)
    /\ timer_active' = FALSE
    /\ UNCHANGED break_timers

\* start_break logging BreakStart before SectionStop.
start_break_BreakStartFirst(log) ==
    /\ csv_log' = log_event(log_event(log, current_section, "BreakStart", NoTrial),
                            current_section, "SectionStop", NoTrial)
    /\ timer_active' = FALSE
    /\ break_timers' = Append(break_timers, now' + BreakSeconds)

\* start_break, continuing from the log so far.
start_break(log) ==
    /\ csv_log' = log_event(log_event(log, current_section, "SectionStop", NoTrial),
                            current_section, "BreakStart", NoTrial)
    /\ timer_active' = FALSE
    /\ break_timers' = Append(break_timers, now' + BreakSeconds)

\* prepare_next_array: the break's single-shot timer fires, in a session
\* explored for `horizon` seconds.
prepare_next_array_within(horizon) ==
    /\ Alive
    /\ UNCHANGED other_programs
    /\ break_timers # << >>
    /\ Head(break_timers) <= EpochStart + horizon
    /\ now' = IF now < Head(break_timers) THEN Head(break_timers) ELSE now
    /\ break_timers' = Tail(break_timers)
    /\ csv_log' = log_event(csv_log, current_section, "BreakStop", NoTrial)
    /\ current_section' = 2
    /\ current_trial_array' = 2
    /\ current_trial_index' = 0
    /\ current_trial_id' = trial_array2[1]
    /\ start_time' = 0
    /\ trial_start_time' = 0
    /\ time_elapsed' = 0
    /\ trial_began' = NoneTime
    /\ force_data' = EmptyDeque(RInt(0))
    /\ time_data' = EmptyDeque(0)
    /\ trapezoid_main_time_data' = EmptyDeque(0)
    /\ trapezoid_main_force_data' = EmptyDeque(RInt(0))
    /\ UNCHANGED << arrays, phase_events_logged, trial_in_progress,
                    experiment_ended, experiment_running, mvcs, timer_active,
                    gdx_state, outlet, window_closed, crashed, starts,
                    bad_reads >>

prepare_next_array == prepare_next_array_within(Horizon)

\* closeEvent: stop_experiment(), then the window closes.
closeEvent ==
    /\ Alive
    /\ UNCHANGED other_programs
    /\ stop_experiment(csv_log)
    /\ window_closed' = TRUE
    /\ UNCHANGED << now, start_time, time_elapsed, trial_start_time, trial_began, arrays,
                    phase_events_logged, current_section, trial_in_progress,
                    current_trial_array, current_trial_index, current_trial_id,
                    mvcs, deques, break_timers, outlet, crashed, starts,
                    bad_reads >>

\* load_last_mvc: the Load MVC button, with the table's last row.
load_last_mvc(data) ==
    LET fg == ParseMvc(data.fg)
        p1 == ParseMvc(data.p1)
        p2 == ParseMvc(data.p2)
    IN  /\ Alive
        /\ UNCHANGED other_programs
        /\ IF ~data.present
           THEN /\ full_grasp_mvc' = 100
                /\ pinchOne_mvc' = 100
                /\ pinchTwo_mvc' = 100
                /\ UNCHANGED crashed
           ELSE /\ full_grasp_mvc' = IF fg.r = "ok" THEN fg.v ELSE full_grasp_mvc
                /\ pinchOne_mvc' = IF fg.r = "ok" /\ p1.r = "ok"
                                   THEN p1.v ELSE pinchOne_mvc
                /\ pinchTwo_mvc' = IF fg.r = "ok" /\ p1.r = "ok" /\ p2.r = "ok"
                                   THEN p2.v ELSE pinchTwo_mvc
                /\ crashed' = IF "raise" \in {fg.r, p1.r, p2.r} THEN "TypeError"
                              ELSE IF PercentagesRaise(data) THEN "ValueError"
                              ELSE "none"
        /\ UNCHANGED << now, start_time, time_elapsed, trial_start_time, trial_began, arrays,
                        phase_events_logged, csv_log, current_section,
                        trial_in_progress, experiment_ended, experiment_running,
                        current_trial_array, current_trial_index,
                        current_trial_id, deques, timer_active, break_timers,
                        gdx_state, outlet, window_closed, starts, bad_reads >>

\* The end of a trial inside update_plot (elapsed-in-trial >= 30), continuing
\* from the log and fired set left by check_phase_boundaries.
TrialCompletion(cp, te) ==
    LET log == log_event(cp.log, current_section, "TrialEnd", current_trial_id)
        index == current_trial_index + 1
    IN  /\ current_trial_index' = index
        /\ IF index >= Len(CurrentArray)
           THEN /\ trial_in_progress' = FALSE
                /\ phase_events_logged' = cp.logged
                /\ UNCHANGED << current_trial_id, trial_start_time, trial_began >>
                /\ IF current_trial_array = 1
                   THEN /\ start_break(log)
                        /\ UNCHANGED << experiment_ended, experiment_running,
                                        gdx_state >>
                   ELSE /\ stop_experiment(log)
                        /\ UNCHANGED break_timers
           ELSE /\ start_trial(log, te, index, FALSE)
                /\ UNCHANGED << timer_active, break_timers, experiment_ended,
                                experiment_running, gdx_state >>

\* The test of update_plot on what gdx.read() returned, without the test
\* of the length.
UsableRead_AnyLength(m) == ~m.none

\* update_plot goes on with the measurements m: not (measurements is None
\* or len(measurements) != 4).
UsableRead(m) == ~(m.none \/ Len(m.vals) # 4)

\* update_plot: the QTimer fires d seconds after the previous event and
\* gdx.read() returns m, in a session explored for `horizon` seconds.
update_plot_within(horizon, d, m) ==
    /\ Alive
    /\ UNCHANGED other_programs
    /\ timer_active
    /\ now + d <= EpochStart + horizon
    /\ break_timers # << >> => now + d <= Head(break_timers)
    /\ now' = now + d
    /\ bad_reads' = IF UsableRead(m) THEN bad_reads ELSE bad_reads + 1
    /\ bad_reads' <= MaxBadReads
    /\ UNCHANGED << start_time, arrays, current_section, current_trial_array,
                    mvcs, window_closed, starts >>
    /\ IF ~experiment_running
       THEN UNCHANGED << time_elapsed, trial_start_time, trial_began, phase_events_logged,
                         csv_log, trial_in_progress, experiment_ended,
                         experiment_running, current_trial_index,
                         current_trial_id, deques, timer_active, break_timers,
                         gdx_state, outlet, crashed >>
       ELSE
        LET te == (now + d) - start_time
            cycle_time == te % 30
            cp == check_phase_boundaries(cycle_time, csv_log,
                                         phase_events_logged, current_section,
                                         current_trial_id)
            max_force == MaxForce(current_trial_id)
        IN  /\ time_elapsed' = te
            /\ IF ~UsableRead(m)
               THEN /\ csv_log' = cp.log
                    /\ phase_events_logged' = cp.logged
                    /\ UNCHANGED << trial_start_time, trial_began, trial_in_progress,
                                    experiment_ended, experiment_running,
                                    current_trial_index, current_trial_id,
                                    deques, timer_active, break_timers,
                                    gdx_state, outlet, crashed >>
               ELSE
                /\ outlet' = m.vals
                /\ IF max_force - MIN_FORCE = 0
                   THEN \* ZeroDivisionError escapes the slot
                        /\ crashed' = "ZeroDivisionError"
                        /\ csv_log' = cp.log
                        /\ phase_events_logged' = cp.logged
                        /\ UNCHANGED << trial_start_time, trial_began, trial_in_progress,
                                        experiment_ended, experiment_running,
                                        current_trial_index, current_trial_id,
                                        deques, timer_active, break_timers,
                                        gdx_state >>
                   ELSE
                    /\ UNCHANGED crashed
                    /\ force_data' = DequeAppend(force_data,
                                                 Normalize(m.vals[1], max_force))
                    /\ time_data' = DequeAppend(time_data, te)
                    /\ trapezoid_main_time_data' =
                           DequeAppend(trapezoid_main_time_data, te)
                    /\ trapezoid_main_force_data' =
                           DequeAppend(trapezoid_main_force_data,
                               get_reference_force(cycle_time, current_trial_id))
                    /\ IF te - trial_start_time >= 30
                       THEN TrialCompletion(cp, te)
                       ELSE /\ csv_log' = cp.log
                            /\ phase_events_logged' = cp.logged
                            /\ UNCHANGED << trial_start_time, trial_began, trial_in_progress,
                                            experiment_ended, experiment_running,
                                            current_trial_index,
                                            current_trial_id, timer_active,
                                            break_timers, gdx_state >>

update_plot(d, m) == update_plot_within(Horizon, d, m)

-----------------------------------------------------------------------------
(* The session: every interleaving of the handlers *)

\* Calibration tables offered to load_last_mvc in a session.
MvcTables == { NoMvcData }

\* A timer tick of the session.
Tick == \E d \in TickSteps, m \in Measurements : update_plot(d, m)

Next ==
    \/ start_experiment
    \/ Tick
    \/ prepare_next_array
    \/ \E data \in MvcTables : load_last_mvc(data)
    \/ closeEvent

Spec == Init /\ [][Next]_vars

-----------------------------------------------------------------------------
(* Normalization: the first trial of a session, with every calibration    *)
(* table and raw reading of the bounded sets below.                        *)

\* Seconds of the session explored for normalization.
NormHorizon == 30

\* Raw force readings of channel 1: negative, zero, in range, above range.
NormRawForces == {0 - 20, 0, 60, 250}

NormMeasurements ==
    {NoMeasurement} \cup { Sample(<<r, 0, 0, 0>>) : r \in NormRawForces }

\* Values a motion cell of the calibration table holds.
NormCells == { Num(0), Num(0 - 50), TextCell, NoneCell, AbsentCell }

NormTables ==
    {NoMvcData} \cup { MvcRow(c, c, c) : c \in NormCells }
                \cup { MvcRow(Num(40), Num(0), Num(0 - 50)) }

NormTick ==
    /\ now < EpochStart + NormHorizon
    /\ \E d \in TickSteps, m \in NormMeasurements : update_plot(d, m)

NextNorm ==
    \/ start_experiment
    \/ NormTick
    \/ \E data \in NormTables : load_last_mvc(data)

SpecNorm == Init /\ [][NextNorm]_vars

-----------------------------------------------------------------------------
(* One trial, second by second: the first trial of a session for each of   *)
(* the 12 trial ids, with a calibration table of three different values.   *)

\* Start presses explored in the one-trial sessions.
TrialStarts == 1

\* Seconds of the session explored in the one-trial sessions.
TrialHorizon == 30

\* Seconds between two timer ticks.
TrialTickSteps == {1, 2}

TrialMeasurements == { NoMeasurement, Sample(<<20, 0, 0, 0>>) }

TrialTables == { NoMvcData, MvcRow(Num(40), Num(70), Num(50)) }

\* Shuffles that put conditions[1], conditions[6], ..., conditions[56]
\* first: each of the 12 ids once.
TrialShufflePairs == { << Repeats * k, 38 >> : k \in 0..(Len(GRIPS) * Len(MVCS) - 1) }

InitTrial == \E sp \in TrialShufflePairs : InitShuffled(sp)

TrialStart == starts < TrialStarts /\ start_experiment

TrialTick ==
    /\ now < EpochStart + TrialHorizon
    /\ \E d \in TrialTickSteps, m \in TrialMeasurements : update_plot(d, m)

NextTrial ==
    \/ TrialStart
    \/ TrialTick
    \/ \E data \in TrialTables : load_last_mvc(data)

SpecTrial == InitTrial /\ [][NextTrial]_vars

-----------------------------------------------------------------------------
(* Whole blocks: a session with the two complete 60-entry trial lists, run *)
(* trial by trial (one 30-second tick per trial) through block 1, the      *)
(* break, block 2 and the end of the session.                              *)

\* Seconds of the session explored with whole blocks: two blocks of 60
\* trials of 30 s and the break.
BlocksHorizon == 3900

\* Start presses explored with whole blocks.
BlocksStarts == 2

\* Seconds between two timer ticks.
BlocksTickSteps == {30}

BlocksMeasurements == { Sample(<<60, 0, 0, 0>>) }

InitWholeBlocks == \E sp \in ShufflePairs : InitBlocks(Shuffle(sp[1]), Shuffle(sp[2]))

BlocksStart == starts < BlocksStarts /\ start_experiment

BlocksTick ==
    \E d \in BlocksTickSteps, m \in BlocksMeasurements :
        update_plot_within(BlocksHorizon, d, m)

NextBlocks ==
    \/ BlocksStart
    \/ BlocksTick
    \/ prepare_next_array_within(BlocksHorizon)
    \/ closeEvent

SpecBlocks == InitWholeBlocks /\ [][NextBlocks]_vars

-----------------------------------------------------------------------------
(* A session run to completion: the operator presses Start once at the     *)
(* beginning and once after the break and does nothing else; the timers    *)
(* keep firing.                                                            *)

SessionTickSteps == {5, 10}

\* None, a short list, and the four channels with two readings.
SessionMeasurements ==
    {NoMeasurement} \cup { Sample(<<0, 0, 0>>) }
                    \cup { Sample(<<r, 0, 0, 0>>) : r \in {30, 60} }

LongestTick(steps) == CHOOSE d \in steps : \A e \in steps : e <= d

\* Seconds in which every such session ends when its ticks are `steps`
\* apart: a trial ends on the first usable tick 30 s after it began, which
\* is at most one tick late, and each unusable tick delays it by one tick
\* more.
HorizonFor(steps) ==
    2 * TrialsPerBlock * (30 + LongestTick(steps))
      + MaxBadReads * LongestTick(steps) + BreakSeconds

SessionHorizon == HorizonFor(SessionTickSteps)

\* Start at the beginning, and Start after prepare_next_array.
SessionStart ==
    /\ \/ starts = 0
       \/ starts = 1 /\ current_section = 2
    /\ start_experiment

SessionTick ==
    \E d \in SessionTickSteps, m \in SessionMeasurements :
        update_plot_within(SessionHorizon, d, m)

SessionBreakOver == prepare_next_array_within(SessionHorizon)

NextSession ==
    \/ SessionStart
    \/ SessionTick
    \/ SessionBreakOver

\* Every such session, whether or not it goes on to its end.
SpecSession == Init /\ [][NextSession]_vars

\* The QTimer and the single-shot timer fire while they are active, and the
\* operator presses Start when it is their turn.
\* In these the read returns None or one reading.
FairMeasurements == { NoMeasurement, Sample(<<60, 0, 0, 0>>) }

FairTickSteps == {10, 20}

FairHorizon == HorizonFor(FairTickSteps)

FairTick ==
    \E d \in FairTickSteps, m \in FairMeasurements :
        update_plot_within(FairHorizon, d, m)

FairBreakOver == prepare_next_array_within(FairHorizon)

NextSessionFair ==
    \/ SessionStart
    \/ FairTick
    \/ FairBreakOver

SpecSessionFair ==
    /\ Init
    /\ [][NextSessionFair]_vars
    /\ WF_vars(FairTick)
    /\ WF_vars(FairBreakOver)
    /\ WF_vars(SessionStart)


-----------------------------------------------------------------------------
(* MVC calibration tool (MVC_Measurement_LIMB.py).  Three threads: the     *)
(* main thread (construction, the Qt event loop, the atexit hook), the     *)
(* sensor worker GDXForceSensor.thread and MVCExperiment.force_thread.     *)
(* The blink timer and the countdown texts only change what is displayed   *)
(* and are left out; GDXForceSensor.data_queue is written and never read.  *)

\* Seconds of wall-clock time explored after launch.
MvcHorizon == 35

\* Start presses (with a motion selected) explored in one session.
MvcMaxStarts == 3

\* The items of motion_dropdown, by index.
MOTIONS == << "Choose the motion", "Full Grasp (Grip)",
              "Pinch (Index Finger)", "Pinch (Middle Finger)" >>

\* motion_dropdown.currentText()
currentText == MOTIONS[motion_index + 1]

phase_durations ==
    [pre_trial1 |-> 5, trial1 |-> 5, rest |-> 10, trial2 |-> 5, post_trial2 |-> 5]

\* Samples kept by update_measurement.
MaxSamples == 1500

\* QTimer.singleShot(ms, cb) at time t: the pending calls stay ordered by
\* due time, equal due times in the order of the calls.
SingleShot(pending, due, cb) ==
    LET k == Cardinality({ i \in DOMAIN pending : pending[i].due <= due })
    IN  SubSeq(pending, 1, k) \o << [due |-> due, cb |-> cb] >>
                              \o SubSeq(pending, k + 1, Len(pending))

\* [f for t, f in zip(time_data, force_data) if lo <= t <= hi], as the sum
\* and the number of its elements.
RECURSIVE WindowFold(_, _, _, _, _)
WindowFold(i, times, forces, lo, hi) ==
    IF i > Len(times) \/ i > Len(forces)
    THEN [sum |-> 0, count |-> 0]
    ELSE LET rest == WindowFold(i + 1, times, forces, lo, hi)
         IN  IF lo <= times[i] /\ times[i] <= hi
             THEN [sum |-> rest.sum + forces[i], count |-> rest.count + 1]
             ELSE rest

\* sum(forces) / len(forces) if forces else `otherwise`
WindowAverage(times, forces, lo, hi, otherwise) ==
    LET w == WindowFold(1, times, forces, lo, hi)
    IN  IF w.count > 0 THEN Some(Rat(w.sum, w.count)) ELSE otherwise

RAdd(a, b) == Rat(a.n * b.d + b.n * a.d, a.d * b.d)

RHalf(a) == Rat(a.n, 2 * a.d)

\* OverallAverage with the sum of the two averages not halved.
OverallAverage_NotHalved(avg_trial1, avg_trial2) ==
    IF avg_trial1 # None /\ avg_trial2 # None
    THEN Some(RAdd(avg_trial1[1], avg_trial2[1]))
    ELSE IF avg_trial1 # None THEN avg_trial1 ELSE avg_trial2

\* overall_avg of finish_experiment
OverallAverage(avg_trial1, avg_trial2) ==
    IF avg_trial1 # None /\ avg_trial2 # None
    THEN Some(RHalf(RAdd(avg_trial1[1], avg_trial2[1])))
    ELSE IF avg_trial1 # None THEN avg_trial1 ELSE avg_trial2

\* self.results[motion] = value
ResultsPut(res, motion, value) ==
    [k \in (DOMAIN res) \cup {motion} |-> IF k = motion THEN value ELSE res[k]]

\* self.results.get(motion, ""): the empty string is modelled as None.
ResultsGet(res, motion) ==
    IF motion \in DOMAIN res THEN Some(res[motion]) ELSE None

\* The motion columns of the row written by save_results_to_csv.
ResultsRow(res) ==
    [fg |-> ResultsGet(res, "Full Grasp (Grip)"),
     p1 |-> ResultsGet(res, "Pinch (Index Finger)"),
     p2 |-> ResultsGet(res, "Pinch (Middle Finger)")]

\* The event loop of the main thread is dispatching.
MvcEvents == mvc_main = "events"

\* A worker thread can take a step: the process is running.
MvcProcessRunning == mvc_main \notin {"launch", "raised", "exited"}

sensor_vars ==
    << gdx_device, latest_value, sensor_data_queue, stop_event, sensor_thread >>

run_vars == << phase, global_start_time, mvc_time_data, mvc_force_data >>

\* GDXForceSensor.__init__, MVCExperiment.__init__ and window.show(): the
\* device open succeeds or raises.
construct(open_ok) ==
    /\ mvc_main = "launch"
    /\ IF open_ok
       THEN /\ gdx_device' = "started"
            /\ sensor_thread' = "loop"
            /\ force_thread' = "running"
            /\ mvc_main' = "events"
            /\ UNCHANGED mvc_exception
       ELSE \* gdx_device = None, then None.select_sensors([1])
            /\ gdx_device' = "None"
            /\ mvc_exception' = "AttributeError"
            /\ mvc_main' = "raised"
            /\ UNCHANGED << sensor_thread, force_thread >>
    /\ UNCHANGED << now, force_vars, gdxtest_vars, latest_value, sensor_data_queue, stop_event,
                    sensor_stop_event, force_queue, run_vars, results,
                    motion_index, started_motion, start_enabled, mvc_timer_active, blink_timer_active,
                    single_shots, mvc_label, saved_rows, mvc_starts >>

\* _read_sensor_data with `while True:` in place of the test of stop_event.
read_sensor_data_loop_NoStopTest ==
    /\ MvcProcessRunning
    /\ sensor_thread = "loop"
    /\ sensor_thread' = "read"
    /\ UNCHANGED << now, force_vars, gdxtest_vars, mvc_main, mvc_exception, gdx_device,
                    latest_value, sensor_data_queue, stop_event, sensor_stop_event,
                    force_thread, force_queue, run_vars, results, motion_index,
                    started_motion, start_enabled, mvc_timer_active,
                    blink_timer_active, single_shots, mvc_label, saved_rows,
                    mvc_starts >>

\* GDXForceSensor._read_sensor_data: the test of the while loop.
read_sensor_data_loop ==
    /\ MvcProcessRunning
    /\ sensor_thread = "loop"
    /\ sensor_thread' = IF stop_event THEN "done" ELSE "read"
    /\ UNCHANGED << now, force_vars, gdxtest_vars, mvc_main, mvc_exception, gdx_device,
                    latest_value, sensor_data_queue, stop_event, sensor_stop_event, force_thread,
                    force_queue, run_vars, results, motion_index, started_motion,
                    start_enabled, mvc_timer_active, blink_timer_active, single_shots, mvc_label,
                    saved_rows, mvc_starts >>

\* GDXForceSensor._read_sensor_data: gdx_device.read() returns m (None or a
\* list).  On a handle that is no longer started the read raises (caught)
\* or returns nothing.
read_sensor_data_read_keeping(keep, m) ==
    /\ MvcProcessRunning
    /\ sensor_thread = "read"
    /\ sensor_thread' = "loop"
    /\ IF gdx_device = "started"
       THEN IF ~m.none /\ Len(m.vals) > 0
            THEN /\ latest_value' = m.vals[1]
                 /\ sensor_data_queue' = QueuePut(keep, sensor_data_queue, m.vals[1])
            ELSE /\ latest_value' = 0
                 /\ UNCHANGED sensor_data_queue
       ELSE /\ latest_value' \in {latest_value, 0}
            /\ UNCHANGED sensor_data_queue
    /\ UNCHANGED << now, force_vars, gdxtest_vars, mvc_main, mvc_exception, gdx_device,
                    stop_event, sensor_stop_event, force_thread, force_queue,
                    run_vars, results, motion_index, started_motion, start_enabled,
                    mvc_timer_active, blink_timer_active, single_shots, mvc_label, saved_rows,
                    mvc_starts >>

\* The read in a session that does not look at data_queue, which the
\* program never reads.
read_sensor_data_read(m) == read_sensor_data_read_keeping(0, m)

\* MVCExperiment.sensor_reading_thread: one iteration of its loop.  The
\* entry put is (time.time(), new_force); the consumer discards the time.
sensor_reading_thread_keeping(keep) ==
    /\ MvcProcessRunning
    /\ force_thread = "running"
    /\ IF sensor_stop_event
       THEN /\ force_thread' = "exited"
            /\ UNCHANGED force_queue
       ELSE /\ force_queue' = QueuePut(keep, force_queue, latest_value)
            /\ UNCHANGED force_thread
    /\ UNCHANGED << now, force_vars, gdxtest_vars, mvc_main, mvc_exception, sensor_vars,
                    sensor_stop_event, run_vars, results, motion_index, started_motion,
                    start_enabled, mvc_timer_active, blink_timer_active, single_shots, mvc_label,
                    saved_rows, mvc_starts >>

\* The worker in a session that looks at force_queue only through the
\* sample update_measurement records.
sensor_reading_thread == sensor_reading_thread_keeping(1)

\* GDXForceSensor._read_sensor_data: gdx_device.read() raises; the except
\* clause of the loop body prints the exception and the loop goes on.
read_sensor_data_read_raises ==
    /\ MvcProcessRunning
    /\ sensor_thread = "read"
    /\ sensor_thread' = "loop"
    /\ UNCHANGED << now, force_vars, gdxtest_vars, mvc_main, mvc_exception, gdx_device,
                    latest_value, sensor_data_queue, stop_event, sensor_stop_event,
                    force_thread, force_queue, run_vars, results, motion_index,
                    started_motion, start_enabled, mvc_timer_active,
                    blink_timer_active, single_shots, mvc_label, saved_rows,
                    mvc_starts >>

\* MVCExperiment.sensor_reading_thread taken in two steps, for the sessions
\* in which the stop flag can be set between them: the test of the while
\* loop,
sensor_reading_thread_test ==
    /\ MvcProcessRunning
    /\ force_thread = "running"
    /\ force_thread' = IF sensor_stop_event THEN "exited" ELSE "put"
    /\ UNCHANGED << now, force_vars, gdxtest_vars, mvc_main, mvc_exception, sensor_vars,
                    sensor_stop_event, force_queue, run_vars, results, motion_index,
                    started_motion, start_enabled, mvc_timer_active,
                    blink_timer_active, single_shots, mvc_label, saved_rows,
                    mvc_starts >>

\* and the body: get_force(), force_queue.put (the queue has no maxsize, so
\* the put neither blocks nor raises queue.Full), time.sleep(0.02).
sensor_reading_thread_put(keep) ==
    /\ MvcProcessRunning
    /\ force_thread = "put"
    /\ force_thread' = "running"
    /\ force_queue' = QueuePut(keep, force_queue, latest_value)
    /\ UNCHANGED << now, force_vars, gdxtest_vars, mvc_main, mvc_exception, sensor_vars,
                    sensor_stop_event, run_vars, results, motion_index,
                    started_motion, start_enabled, mvc_timer_active,
                    blink_timer_active, single_shots, mvc_label, saved_rows,
                    mvc_starts >>

\* The user picks item i of motion_dropdown: currentIndexChanged runs
\* enable_start_button.
enable_start_button(i) ==
    /\ MvcEvents
    /\ i # motion_index
    /\ motion_index' = i
    /\ start_enabled' = (i # 0)
    /\ UNCHANGED started_motion
    /\ UNCHANGED << now, force_vars, gdxtest_vars, mvc_main, mvc_exception, sensor_vars,
                    sensor_stop_event, force_thread, force_queue, run_vars,
                    results, mvc_timer_active, blink_timer_active, single_shots, mvc_label,
                    saved_rows, mvc_starts >>

\* MVCExperiment.start_experiment: the Start button, clickable when enabled.
mvc_start_experiment(max_starts) ==
    /\ MvcEvents
    /\ start_enabled
    /\ mvc_starts < max_starts
    /\ IF motion_index = 0
       THEN UNCHANGED << start_enabled, run_vars, mvc_timer_active,
                         single_shots, mvc_label, mvc_starts, started_motion >>
       ELSE /\ start_enabled' = FALSE
            /\ mvc_time_data' = << >>
            /\ mvc_force_data' = << >>
            /\ mvc_label' = MvcLabel(None, None, None)
            /\ global_start_time' = now
            /\ phase' = "pre_trial1"
            /\ mvc_timer_active' = TRUE
            /\ single_shots' = SingleShot(single_shots,
                                   now + phase_durations.pre_trial1, "start_trial1")
            /\ mvc_starts' = mvc_starts + 1
            /\ started_motion' = motion_index
    /\ UNCHANGED << now, force_vars, gdxtest_vars, mvc_main, mvc_exception, sensor_vars,
                    sensor_stop_event, force_thread, force_queue, results,
                    motion_index, blink_timer_active, saved_rows >>

\* update_measurement: the 50 ms QTimer fires, d seconds after the previous
\* event or at the due time of the next single-shot call if that is sooner.
update_measurement(d) ==
    LET tnow == IF single_shots # << >> /\ now + d > Head(single_shots).due
                THEN Head(single_shots).due ELSE now + d
        current_time == tnow - global_start_time
        in_trial == phase \in {"trial1", "trial2"}
        new_force == IF in_trial THEN DrainQueue(force_queue, 0) ELSE 0
        times == Append(mvc_time_data, current_time)
        forces == Append(mvc_force_data, new_force)
    IN  /\ MvcEvents
        /\ mvc_timer_active
        /\ single_shots # << >> => now < Head(single_shots).due
        /\ tnow <= EpochStart + MvcHorizon
        /\ now' = tnow
        /\ IF global_start_time = NoneTime
           THEN UNCHANGED << mvc_time_data, mvc_force_data, force_queue >>
           ELSE /\ force_queue' = IF in_trial THEN EmptyQueue ELSE force_queue
                /\ mvc_time_data' = IF Len(times) > MaxSamples THEN Tail(times) ELSE times
                /\ mvc_force_data' = IF Len(times) > MaxSamples THEN Tail(forces) ELSE forces
        /\ UNCHANGED << force_vars, gdxtest_vars, mvc_main, mvc_exception, sensor_vars,
                        sensor_stop_event, force_thread, phase,
                        global_start_time, results, motion_index, started_motion,
                        start_enabled, mvc_timer_active, blink_timer_active, single_shots,
                        mvc_label, saved_rows, mvc_starts >>

\* The earliest pending single-shot call is cb and the event loop delivers
\* it: at its due time, which the running 50 ms timer has reached tick by
\* tick or, with that timer stopped, the clock reaches now.
SingleShotFires(cb) ==
    /\ MvcEvents
    /\ single_shots # << >>
    /\ Head(single_shots).cb = cb
    /\ Head(single_shots).due <= EpochStart + MvcHorizon
    /\ mvc_timer_active => now >= Head(single_shots).due
    /\ now' = IF now < Head(single_shots).due THEN Head(single_shots).due ELSE now

\* What every single-shot callback but finish_experiment leaves alone.
CallbackFrame ==
    UNCHANGED << force_vars, gdxtest_vars, mvc_main, mvc_exception, sensor_vars,
                 sensor_stop_event, force_thread, force_queue,
                 global_start_time, mvc_time_data, mvc_force_data, results,
                 motion_index, started_motion, start_enabled, mvc_timer_active, saved_rows,
                 mvc_starts >>

start_trial1 ==
    /\ SingleShotFires("start_trial1")
    /\ blink_timer_active' = TRUE
    /\ phase' = "trial1"
    /\ single_shots' = SingleShot(Tail(single_shots),
                           now' + phase_durations.trial1, "end_trial1")
    /\ UNCHANGED mvc_label
    /\ CallbackFrame

end_trial1 ==
    /\ SingleShotFires("end_trial1")
    /\ blink_timer_active' = FALSE
    /\ mvc_label' = MvcLabel(WindowAverage(mvc_time_data, mvc_force_data, 5, 10,
                                           Some(RInt(0))),
                             None, None)
    /\ phase' = "rest"
    /\ single_shots' = SingleShot(Tail(single_shots),
                           now' + phase_durations.rest, "start_trial2")
    /\ CallbackFrame

start_trial2 ==
    /\ SingleShotFires("start_trial2")
    /\ blink_timer_active' = TRUE
    /\ phase' = "trial2"
    /\ single_shots' = SingleShot(Tail(single_shots),
                           now' + phase_durations.trial2, "end_trial2")
    /\ UNCHANGED mvc_label
    /\ CallbackFrame

end_trial2 ==
    /\ SingleShotFires("end_trial2")
    /\ blink_timer_active' = FALSE
    /\ mvc_label' = MvcLabel(WindowAverage(mvc_time_data, mvc_force_data, 5, 10,
                                           Some(RInt(0))),
                             WindowAverage(mvc_time_data, mvc_force_data, 20, 25,
                                           Some(RInt(0))),
                             None)
    /\ phase' = "post_trial2"
    /\ single_shots' = SingleShot(Tail(single_shots),
                           now' + phase_durations.post_trial2, "finish_experiment")
    /\ CallbackFrame

\* finish_experiment, with save_results_to_csv when three results are held.
finish_experiment ==
    LET avg_trial1 == WindowAverage(mvc_time_data, mvc_force_data, 5, 10, None)
        avg_trial2 == WindowAverage(mvc_time_data, mvc_force_data, 20, 25, None)
        overall_avg == OverallAverage(avg_trial1, avg_trial2)
        stored == IF overall_avg # None THEN overall_avg[1] ELSE RInt(0)
        held == ResultsPut(results, currentText, stored)
    IN  /\ SingleShotFires("finish_experiment")
        /\ single_shots' = Tail(single_shots)
        /\ mvc_timer_active' = FALSE
        /\ UNCHANGED blink_timer_active
        /\ mvc_label' = MvcLabel(avg_trial1, avg_trial2, overall_avg)
        /\ IF Cardinality(DOMAIN held) = 3
           THEN /\ saved_rows' = Append(saved_rows, ResultsRow(held))
                /\ results' = EmptyResults
           ELSE /\ results' = held
                /\ UNCHANGED saved_rows
        /\ UNCHANGED << force_vars, gdxtest_vars, mvc_main, mvc_exception, sensor_vars,
                        sensor_stop_event, force_thread, force_queue, run_vars,
                        motion_index, started_motion, start_enabled, mvc_starts >>

\* stop_measurement, up to force_thread.join(): the Stop button.
stop_measurement ==
    /\ MvcEvents
    /\ mvc_timer_active' = FALSE
    /\ blink_timer_active' = FALSE
    /\ sensor_stop_event' = TRUE
    /\ mvc_main' = "stop_join_force"
    /\ UNCHANGED << now, force_vars, gdxtest_vars, mvc_exception, sensor_vars, force_thread,
                    force_queue, run_vars, results, motion_index, started_motion,
                    start_enabled, single_shots, mvc_label, saved_rows,
                    mvc_starts >>

\* stop_measurement: force_thread.join() returns and force_sensor.stop()
\* runs up to its thread.join().
stop_measurement_joined ==
    /\ mvc_main = "stop_join_force"
    /\ force_thread = "exited"
    /\ stop_event' = TRUE
    /\ mvc_main' = "stop_join_sensor"
    /\ UNCHANGED << now, force_vars, gdxtest_vars, mvc_exception, gdx_device, latest_value, sensor_data_queue,
                    sensor_thread, sensor_stop_event, force_thread, force_queue,
                    run_vars, results, motion_index, started_motion, start_enabled,
                    mvc_timer_active, blink_timer_active, single_shots, mvc_label, saved_rows,
                    mvc_starts >>

\* GDXForceSensor.stop with its thread.join() left out.
SensorThreadJoin_NoWait == TRUE

\* self.thread.join() of GDXForceSensor.stop returns.
SensorThreadJoin == sensor_thread = "done"

\* GDXForceSensor.stop after thread.join(): gdx_device.stop() and close()
\* (on a closed handle they raise, which is caught), then the caller goes
\* on: stop_measurement returns to the event loop, the atexit hook ends the
\* process.
sensor_stop_close ==
    /\ mvc_main \in {"stop_join_sensor", "exit_join_sensor"}
    /\ SensorThreadJoin
    /\ gdx_device' = "closed"
    /\ mvc_main' = IF mvc_main = "stop_join_sensor" THEN "events" ELSE "exited"
    /\ UNCHANGED << now, force_vars, gdxtest_vars, mvc_exception, latest_value, sensor_data_queue, stop_event,
                    sensor_thread, sensor_stop_event, force_thread, force_queue,
                    run_vars, results, motion_index, started_motion, start_enabled,
                    mvc_timer_active, blink_timer_active, single_shots, mvc_label, saved_rows,
                    mvc_starts >>

\* The window is closed: app.exec_() returns, sys.exit runs the atexit hook
\* window.force_sensor.stop up to its thread.join().
mvc_window_closed ==
    /\ MvcEvents
    /\ stop_event' = TRUE
    /\ mvc_main' = "exit_join_sensor"
    /\ UNCHANGED << now, force_vars, gdxtest_vars, mvc_exception, gdx_device, latest_value, sensor_data_queue,
                    sensor_thread, sensor_stop_event, force_thread, force_queue,
                    run_vars, results, motion_index, started_motion, start_enabled,
                    mvc_timer_active, blink_timer_active, single_shots, mvc_label, saved_rows,
                    mvc_starts >>

\* The force experiment is not the program under study: its variables keep
\* the values of one construction.
InitMvc == InitShuffled(<< 0, 38 >>)

\* Seconds between two ticks of the 50 ms timer (a busy GUI thread makes a
\* tick late).
MvcTickSteps == {5}

\* What gdx_device.read() returns to the sensor worker.
MvcReadings == { Sample(<< 10 >>) }

NextMvc ==
    \/ \E open_ok \in BOOLEAN : construct(open_ok)
    \/ read_sensor_data_loop
    \/ \E m \in MvcReadings : read_sensor_data_read(m)
    \/ sensor_reading_thread
    \/ \E i \in 0..(Len(MOTIONS) - 1) : enable_start_button(i)
    \/ mvc_start_experiment(MvcMaxStarts)
    \/ \E d \in MvcTickSteps : update_measurement(d)
    \/ start_trial1
    \/ end_trial1
    \/ start_trial2
    \/ end_trial2
    \/ finish_experiment
    \/ stop_measurement
    \/ stop_measurement_joined
    \/ sensor_stop_close
    \/ mvc_window_closed

SpecMvc == InitMvc /\ [][NextMvc]_vars

-----------------------------------------------------------------------------
(* MVC calibration tool, one run with sensor readings of two sizes: the    *)
(* samples that finish_experiment averages.                                *)

\* Start presses (with a motion selected) explored in the averaging runs.
MvcAvgStarts == 1

MvcAvgTickSteps == {5}

MvcAvgReadings == { Sample(<< 10 >>), Sample(<< 40 >>) }

NextMvcAvg ==
    \/ construct(TRUE)
    \/ read_sensor_data_loop
    \/ \E m \in MvcAvgReadings : read_sensor_data_read(m)
    \/ sensor_reading_thread
    \/ \E i \in 0..(Len(MOTIONS) - 1) : enable_start_button(i)
    \/ mvc_start_experiment(MvcAvgStarts)
    \/ \E d \in MvcAvgTickSteps : update_measurement(d)
    \/ start_trial1
    \/ end_trial1
    \/ start_trial2
    \/ end_trial2
    \/ finish_experiment
    \/ stop_measurement
    \/ stop_measurement_joined
    \/ sensor_stop_close

SpecMvcAvg == InitMvc /\ [][NextMvcAvg]_vars

-----------------------------------------------------------------------------
(* MVC calibration tool, one run in which the hand-off queues are tracked: *)
(* GDXForceSensor.data_queue (written by the sensor worker, never read)    *)
(* and MVCExperiment.force_queue (written by force_thread, drained by      *)
(* update_measurement in trial1 and trial2).                               *)

\* Entries of each queue that are tracked; a queue holding this many holds
\* at least this many.
HandoffKeep == 4

HandoffStarts == 1

HandoffTickSteps == {5}

\* latest_value is 0 until the first read and 10 afterwards, so the queue
\* can hold entries of two values.
HandoffReadings == { Sample(<< 10 >>) }

\* The dropdown items the operator picks.
HandoffMotions == {1}

NextHandoff ==
    \/ construct(TRUE)
    \/ read_sensor_data_loop
    \/ \E m \in HandoffReadings : read_sensor_data_read_keeping(HandoffKeep, m)
    \/ sensor_reading_thread_keeping(HandoffKeep)
    \/ \E i \in HandoffMotions : enable_start_button(i)
    \/ mvc_start_experiment(HandoffStarts)
    \/ \E d \in HandoffTickSteps : update_measurement(d)
    \/ start_trial1
    \/ end_trial1
    \/ start_trial2
    \/ end_trial2
    \/ finish_experiment

SpecHandoff == InitMvc /\ [][NextHandoff]_vars

-----------------------------------------------------------------------------
(* gdxtest.py: the main thread (script body, the animation inside          *)
(* plt.show(), the cleanup) and the thread sensor_reading_thread.  The     *)
(* device has one sensor whose k-th measurement is [k]; y_data is          *)
(* modelled by its newest point.                                           *)

\* data_queue = queue.Queue(maxsize=100)
QueueMaxsize == 100

\* Measurements the device returns in one run of the script.
GdxtestMaxReads == 102

\* np.clip(x, lo, hi)
Clip(x, lo, hi) == IF RLt(x, lo) THEN lo ELSE IF RLt(hi, x) THEN hi ELSE x

\* put_nowait on a queue without maxsize.
put_nowait_Unbounded(q, measurements) == Append(q, measurements)

\* data_queue.put_nowait(measurements): the queue afterwards (queue.Full
\* is caught and the measurement skipped).
put_nowait(q, measurements) ==
    IF Len(q) >= QueueMaxsize THEN q ELSE Append(q, measurements)

\* The script body up to plt.show(): the device is opened and started, the
\* thread is started.
gdxtest_launch ==
    /\ gdxtest_main = "launch"
    /\ gdxtest_main' = "show"
    /\ gdxtest_device' = "started"
    /\ gdxtest_thread' = "loop"
    /\ UNCHANGED << now, force_vars, mvc_vars, gdxtest_stop_event,
                    gdxtest_reads, data_queue, y_data >>

\* sensor_reading_thread: the test of its while loop; the device has at
\* most max_reads measurements to give.
gdxtest_thread_loop(max_reads) ==
    /\ gdxtest_main \notin {"launch", "exited"}
    /\ gdxtest_thread = "loop"
    /\ gdxtest_stop_event \/ gdxtest_reads < max_reads
    /\ gdxtest_thread' = IF gdxtest_stop_event THEN "done" ELSE "read"
    /\ UNCHANGED << now, force_vars, mvc_vars, gdxtest_main, gdxtest_device,
                    gdxtest_stop_event, gdxtest_reads, data_queue, y_data >>

\* sensor_reading_thread: the body of its loop; gdx_device.read() returns
\* the next measurement or None.  On a handle that is no longer started the
\* read returns None or raises, which ends the thread.
gdxtest_thread_read(none) ==
    /\ gdxtest_main \notin {"launch", "exited"}
    /\ gdxtest_thread = "read"
    /\ IF gdxtest_device = "started"
       THEN /\ gdxtest_thread' = "loop"
            /\ IF none
               THEN UNCHANGED << gdxtest_reads, data_queue >>
               ELSE /\ gdxtest_reads' = gdxtest_reads + 1
                    /\ data_queue' = put_nowait(data_queue, << gdxtest_reads + 1 >>)
       ELSE /\ gdxtest_thread' \in {"loop", "done"}
            /\ UNCHANGED << gdxtest_reads, data_queue >>
    /\ UNCHANGED << now, force_vars, mvc_vars, gdxtest_main, gdxtest_device,
                    gdxtest_stop_event, y_data >>

\* sensor_reading_thread: gdx_device.read() raises.  The read is outside
\* the try block, so the exception ends the thread.
gdxtest_thread_read_raises ==
    /\ gdxtest_main \notin {"launch", "exited"}
    /\ gdxtest_thread = "read"
    /\ gdxtest_thread' = "done"
    /\ UNCHANGED << now, force_vars, mvc_vars, gdxtest_main, gdxtest_device,
                    gdxtest_stop_event, gdxtest_reads, data_queue, y_data >>

\* update: one pass of its while loop in which get_nowait() returns a
\* measurement (on queue.Empty the loop ends and nothing changes).
gdxtest_update ==
    /\ gdxtest_main = "show"
    /\ data_queue # << >>
    /\ data_queue' = Tail(data_queue)
    /\ y_data' = Clip(Rat(Head(data_queue)[1], 50), RInt(0 - 1), RInt(1))
    /\ UNCHANGED << now, force_vars, mvc_vars, gdxtest_main, gdxtest_device,
                    gdxtest_stop_event, gdxtest_thread, gdxtest_reads >>

\* The plot window is closed: plt.show() returns and stop_event.set() runs.
gdxtest_window_closed ==
    /\ gdxtest_main = "show"
    /\ gdxtest_stop_event' = TRUE
    /\ gdxtest_main' = "join"
    /\ UNCHANGED << now, force_vars, mvc_vars, gdxtest_device, gdxtest_thread,
                    gdxtest_reads, data_queue, y_data >>

\* The cleanup with thread.join() left out.
GdxtestThreadJoin_NoWait == TRUE

\* thread.join() of the cleanup returns.
GdxtestThreadJoin == gdxtest_thread = "done"

\* The cleanup after thread.join(): gdx_device.stop(), gdx_device.close().
gdxtest_cleanup ==
    /\ gdxtest_main = "join"
    /\ GdxtestThreadJoin
    /\ gdxtest_device' = "closed"
    /\ gdxtest_main' = "exited"
    /\ UNCHANGED << now, force_vars, mvc_vars, gdxtest_stop_event,
                    gdxtest_thread, gdxtest_reads, data_queue, y_data >>

NextGdxtest ==
    \/ gdxtest_launch
    \/ gdxtest_thread_loop(GdxtestMaxReads)
    \/ \E none \in BOOLEAN : gdxtest_thread_read(none)
    \/ gdxtest_update
    \/ gdxtest_window_closed
    \/ gdxtest_cleanup

SpecGdxtest == InitMvc /\ [][NextGdxtest]_vars

-----------------------------------------------------------------------------
(* Shutdown of the MVC tool and of gdxtest.py, side by side: the threads,  *)
(* the Stop button, the window closes and the cleanups.                    *)

\* Measurements the gdxtest device returns in the shutdown runs.
ShutdownReads == 2

NextShutdown ==
    \/ construct(TRUE)
    \/ read_sensor_data_loop
    \/ \E m \in MvcReadings : read_sensor_data_read(m)
    \/ sensor_reading_thread
    \/ stop_measurement
    \/ stop_measurement_joined
    \/ sensor_stop_close
    \/ mvc_window_closed
    \/ gdxtest_launch
    \/ gdxtest_thread_loop(ShutdownReads)
    \/ \E none \in BOOLEAN : gdxtest_thread_read(none)
    \/ gdxtest_update
    \/ gdxtest_window_closed
    \/ gdxtest_cleanup

SpecShutdown == InitMvc /\ [][NextShutdown]_vars

-----------------------------------------------------------------------------
(* The same two shutdowns with reads that may raise, with the iteration of *)
(* force_thread in two steps, and with threads that keep being scheduled:  *)
(* a worker that can take a step eventually takes one (each device read    *)
(* returns or raises), and a main thread whose join can return goes on.    *)

\* Measurements the gdxtest device returns in these runs.
StopReads == 2

MvcSensorWorker ==
    \/ read_sensor_data_loop
    \/ \E m \in MvcReadings : read_sensor_data_read(m)
    \/ read_sensor_data_read_raises

MvcForceWorker ==
    \/ sensor_reading_thread_test
    \/ sensor_reading_thread_put(1)

GdxtestWorker ==
    \/ gdxtest_thread_loop(StopReads)
    \/ \E none \in BOOLEAN : gdxtest_thread_read(none)
    \/ gdxtest_thread_read_raises

\* The main thread of the MVC tool goes on after a join has returned.
MvcJoinReturns ==
    \/ stop_measurement_joined
    \/ sensor_stop_close

NextStop ==
    \/ construct(TRUE)
    \/ MvcSensorWorker
    \/ MvcForceWorker
    \/ stop_measurement
    \/ MvcJoinReturns
    \/ mvc_window_closed
    \/ gdxtest_launch
    \/ GdxtestWorker
    \/ gdxtest_update
    \/ gdxtest_window_closed
    \/ gdxtest_cleanup

SpecStop ==
    /\ InitMvc
    /\ [][NextStop]_vars
    /\ WF_vars(MvcSensorWorker)
    /\ WF_vars(MvcForceWorker)
    /\ WF_vars(GdxtestWorker)
    /\ WF_vars(MvcJoinReturns)
    /\ WF_vars(gdxtest_cleanup)

-----------------------------------------------------------------------------
(* Reading the session log *)

PhaseEventNames == { phase_events[i].event : i \in DOMAIN phase_events }

\* Offset of a phase event, and its place in the list.
PhaseIndex(event) == CHOOSE i \in DOMAIN phase_events : phase_events[i].event = event

\* The events of a sequence of rows.
EventsOf(rows) == [k \in DOMAIN rows |-> rows[k].event]

IsPhaseRow(r) == r.event \in PhaseEventNames

\* Rows appended by the step from the current state to the next.
NewRows == SubSeq(csv_log', Len(csv_log) + 1, Len(csv_log'))

\* Number of rows of an event in a section.
CountRows(event, section) ==
    Cardinality({ k \in DOMAIN csv_log :
                    csv_log[k].event = event /\ csv_log[k].section = section })

CountEvent(event) == CountRows(event, 1) + CountRows(event, 2)

\* The rows of the trial that row k (a TrialEnd) ends: those after the
\* previous TrialEnd or BreakStop row.
TrialRowsBefore(k) ==
    LET marks == { j \in 1..(k - 1) : csv_log[j].event \in {"TrialEnd", "BreakStop"} }
        from  == IF marks = {} THEN 1
                 ELSE (CHOOSE j \in marks : \A i \in marks : i <= j) + 1
    IN  SubSeq(csv_log, from, k - 1)

\* Ids of the TrialEnd rows of a section, in log order.
TrialEndIds(section) ==
    LET ends == SelectSeq(csv_log,
                    LAMBDA r : r.event = "TrialEnd" /\ r.section = section)
    IN  [k \in DOMAIN ends |-> ends[k].trial_id]

IsPrefix(s, t) == Len(s) <= Len(t) /\ \A k \in DOMAIN s : s[k] = t[k]

-----------------------------------------------------------------------------
(* Claims *)

\* C1: for every trial that runs to its TrialEnd row, each of the 10
\* phase-boundary events is logged exactly once with that trial's id, in
\* ascending offset order.
C1_AllPhaseEventsPerTrial ==
    \A k \in DOMAIN csv_log :
        csv_log[k].event = "TrialEnd" =>
            LET rows == SelectSeq(TrialRowsBefore(k), IsPhaseRow)
            IN  /\ EventsOf(rows) = EventsOf(phase_events)
                /\ \A j \in DOMAIN rows : rows[j].trial_id = csv_log[k].trial_id

\* C2: a tick logs exactly the not-yet-logged phase events whose offset is
\* at most the tick's cycle time, in ascending offset order with Stop before
\* Start at equal offsets, and none whose offset is greater.
C2_TickLogsDueEventsInOrder ==
    [][ (Tick /\ experiment_running) =>
          LET cycle_time == time_elapsed' % 30
              rows == SelectSeq(NewRows, IsPhaseRow)
              due  == { e \in PhaseEventNames :
                          /\ phase_events[PhaseIndex(e)].boundary <= cycle_time
                          /\ e \notin phase_events_logged }
          IN  /\ { rows[j].event : j \in DOMAIN rows } = due
              /\ Len(rows) = Cardinality(due)
              /\ \A i, j \in DOMAIN rows :
                    i < j => PhaseIndex(rows[i].event) < PhaseIndex(rows[j].event)
              /\ \A j \in DOMAIN rows :
                    /\ rows[j].trial_id = current_trial_id
                    /\ rows[j].section = current_section
    ]_vars

\* C2 witness: the only tick after Start was one 10-second tick (no sample
\* has been plotted and one read failed); it crossed the boundaries 0, 5 and
\* 10 and logged their five events after the SectionStart row.
C2_Witness ==
    /\ starts = 1
    /\ time_elapsed = 10
    /\ time_data.empty
    /\ bad_reads = 1
    /\ EventsOf(csv_log) = << "SectionStart", "RestPhaseStart", "RestPhaseStop",
                              "GetReadyStart", "GetReadyStop", "RampUpPhaseStart" >>

\* C3: at the moment a trial begins (a TrialStart row was just written, or
\* Start was pressed at the head of a block) phase_events_logged is empty.
TrialJustBegan ==
    /\ csv_log # << >>
    /\ \/ csv_log[Len(csv_log)].event = "TrialStart"
       \/ /\ csv_log[Len(csv_log)].event = "SectionStart"
          /\ \/ Len(csv_log) = 1
             \/ csv_log[Len(csv_log) - 1].event = "BreakStop"

C3_FiredSetEmptyAtTrialStart == TrialJustBegan => phase_events_logged = {}

\* C4: the break is entered exactly once: at most one BreakStart row and at
\* most one BreakStop row are ever logged, and once block 1 is complete
\* there is one BreakStart row.
C4_BreakEnteredOnce ==
    /\ CountEvent("BreakStart") <= 1
    /\ CountEvent("BreakStop") <= 1
    /\ Len(TrialEndIds(1)) >= Len(trial_array1) => CountEvent("BreakStart") = 1

\* C5: termination is idempotent: exactly one SectionStop row of section 2
\* is written however often stop_experiment runs, and experiment_ended
\* stays true.
C5_TerminationIdempotent ==
    /\ [](CountRows("SectionStop", 2) =
            IF experiment_ended /\ current_section = 2 THEN 1 ELSE 0)
    /\ [][experiment_ended => experiment_ended']_vars

\* C5 witness: block 2 ran to its last TrialEnd, update_plot stopped the
\* experiment, and closeEvent then called stop_experiment again.
C5_Witness ==
    /\ window_closed
    /\ experiment_ended
    /\ current_trial_array = 2
    /\ current_trial_index = Len(trial_array2)
    /\ CountRows("SectionStop", 2) = 1

\* C6: for each section at most one SectionStop row is ever written.
C6_OneSectionStopPerSection ==
    \A section \in {1, 2} : CountRows("SectionStop", section) <= 1

\* C7: on the first tick at which elapsed-in-trial is >= 30 s exactly one
\* TrialEnd row is logged for the current trial and the index advances by
\* one, whatever the sensor read returned.
C7_TrialEndsOnFirstTickPast30 ==
    [][ ( /\ Tick
          /\ experiment_running
          /\ time_elapsed - trial_start_time < 30
          /\ time_elapsed' - trial_start_time >= 30 )
        =>
        ( /\ SelectSeq(NewRows, LAMBDA r : r.event = "TrialEnd")
               = << Row(current_section, "TrialEnd", current_trial_id) >>
          /\ current_trial_index' = current_trial_index + 1 )
    ]_vars

\* C8: the TrialEnd rows of section k carry the ids of trial list k in
\* index order, none repeated or skipped, and no more rows than the list
\* has trials.
C8_TrialsConsumedInOrder ==
    /\ IsPrefix(TrialEndIds(1), trial_array1)
    /\ IsPrefix(TrialEndIds(2), trial_array2)

\* C9: every normalized force value appended to force_data lies in [0, 1].
C9_NormalizedForceInUnitInterval ==
    ~force_data.empty =>
        /\ RLe(RInt(0), force_data.last)
        /\ RLe(force_data.last, RInt(1))

\* C9 witness: a raw reading above the reference was normalized on the last
\* tick and the clamped value 1 was appended.
C9_Witness ==
    /\ ~force_data.empty
    /\ outlet # << >>
    /\ MaxForce(current_trial_id) > 0
    /\ outlet[1] > MaxForce(current_trial_id)
    /\ force_data.last = RInt(1)
    /\ time_data.last = time_elapsed

\* C10: normalization never raises: with a reference of 0 installed by
\* load_last_mvc the tick still completes.
C10_NormalizationNeverRaises == crashed # "ZeroDivisionError"

\* The reference the calibration stores for the active trial's grip.
MatchingReference ==
    CASE current_trial_id.grip = "FullGrasp"   -> full_grasp_mvc
      [] current_trial_id.grip = "IndexPinch"  -> pinchOne_mvc
      [] current_trial_id.grip = "MiddlePinch" -> pinchTwo_mvc

\* C11: the normalization denominator of a tick is the reference of the
\* active trial's grip (full_grasp_mvc for FullGrasp, pinchOne_mvc for
\* IndexPinch, pinchTwo_mvc for MiddlePinch), and every active trial id has
\* one of the three grips.
C11_DenominatorMatchesGrip ==
    /\ [](current_trial_id.grip \in {"FullGrasp", "IndexPinch", "MiddlePinch"})
    /\ [][ \A d \in TrialTickSteps, m \in TrialMeasurements :
            (update_plot(d, m) /\ experiment_running /\ ~m.none) =>
                IF MatchingReference = 0
                THEN crashed' = "ZeroDivisionError"
                ELSE force_data' =
                        DequeAppend(force_data,
                            PyMax(RInt(0),
                                  PyMin(Rat(m.vals[1], MatchingReference), RInt(1))))
       ]_vars

\* C11 witness: a MiddlePinch trial with the references 40, 70, 50 loaded,
\* whose last tick appended 20/50.
C11_Witness ==
    /\ current_trial_id.grip = "MiddlePinch"
    /\ mvcs = << 40, 70, 50 >>
    /\ outlet = << 20, 0, 0, 0 >>
    /\ ~force_data.empty
    /\ force_data.last = Rat(20, 50)
    /\ time_data.last = time_elapsed

\* The calibration's value for a cell: the parsed number, else 100.
ExpectedReference(cell) == IF cell.k = "num" THEN cell.v ELSE 100

\* C12: load_last_mvc completes without raising for every state of the
\* calibration table, and afterwards each of the three references is the
\* parsed cell value when the cell is numeric and 100 otherwise.
C12_LoadNeverRaises ==
    [][ \A data \in NormTables :
          load_last_mvc(data) =>
              /\ crashed' = "none"
              /\ full_grasp_mvc' = ExpectedReference(data.fg)
              /\ pinchOne_mvc' = ExpectedReference(data.p1)
              /\ pinchTwo_mvc' = ExpectedReference(data.p2)
    ]_vars

\* The phases whose interval contains cycle time t.
ActivePhases(t) ==
    { phase_intervals[i].phase :
        i \in { j \in DOMAIN phase_intervals :
                   phase_intervals[j].lo <= t /\ t < phase_intervals[j].hi } }

\* The trapezoid of target fraction f at cycle time t, phase by phase.
Trapezoid(ph, t, f) ==
    CASE ph \in {"Rest", "Ready"} -> RInt(0)
      [] ph = "RampUp"   -> RMul(f, Rat(t - 10, 5))
      [] ph = "Hold"     -> f
      [] ph = "RampDown" -> RMul(f, RSub(RInt(1), Rat(t - 25, 5)))

\* C13: for every cycle time t in [0,30) and target fraction f in
\* {0.2, 0.4, 0.6, 0.8} exactly one of Rest [0,5), Ready [5,10), RampUp
\* [10,15), Hold [15,25), RampDown [25,30) contains t, and the reference
\* force plotted for t is 0 in Rest and Ready, f*(t-10)/5 in RampUp, f in
\* Hold and f*(1-(t-25)/5) in RampDown.
C13_ReferenceIsTrapezoid ==
    ~trapezoid_main_force_data.empty =>
        LET t == trapezoid_main_time_data.last % 30
            level == IntOfLastTwo(current_trial_id)
        IN  /\ level \in {20, 40, 60, 80}
            /\ Cardinality(ActivePhases(t)) = 1
            /\ \A ph \in ActivePhases(t) :
                  REq(trapezoid_main_force_data.last,
                      Trapezoid(ph, t, Rat(level, 100)))

\* C13 witness: a trial of target 0.6 two seconds into its ramp-down: the
\* reference plotted at cycle time 27 is 0.6 * 3/5.
C13_Witness ==
    /\ ~trapezoid_main_force_data.empty
    /\ trapezoid_main_time_data.last = 27
    /\ time_elapsed = 27
    /\ IntOfLastTwo(current_trial_id) = 60
    /\ REq(trapezoid_main_force_data.last, Rat(36, 100))

\* A run of the MVC tool has begun: start_experiment passed its guard.
MvcRunStarts == mvc_starts' = mvc_starts + 1

\* No run of the MVC tool is under way: none was started, or the last one
\* has finished.
MvcIdle ==
    /\ single_shots = << >>
    /\ ~mvc_timer_active
    /\ phase \in {"None", "post_trial2"}

\* C14: between a Start press and its finish_experiment the phase takes
\* the values pre_trial1, trial1, rest, trial2, post_trial2 in that order,
\* each entered once, and finish_experiment runs once: every handler that
\* assigns the phase runs in the phase before its own, and a run starts
\* only when no run is under way.
C14_PhaseSequenceOncePerRun ==
    [][ /\ MvcRunStarts => MvcIdle
        /\ start_trial1 => phase = "pre_trial1"
        /\ end_trial1 => phase = "trial1"
        /\ start_trial2 => phase = "rest"
        /\ end_trial2 => phase = "trial2"
        /\ finish_experiment => (phase = "post_trial2" /\ Len(single_shots) = 1)
    ]_vars

\* The three motions that are measured.
MeasuredMotions == { MOTIONS[i] : i \in 2..Len(MOTIONS) }

\* C16: a results record is persisted only when results for all three
\* motions are held, once for that set, every motion column of a persisted
\* record holds a value, and the held results are empty afterwards.
C16_RecordCompleteAndOnce ==
    /\ [](\A k \in DOMAIN saved_rows :
            /\ saved_rows[k].fg # None
            /\ saved_rows[k].p1 # None
            /\ saved_rows[k].p2 # None)
    /\ [][ saved_rows' # saved_rows =>
             /\ (DOMAIN results) \cup {currentText} = MeasuredMotions
             /\ Len(saved_rows') = Len(saved_rows) + 1
             /\ results' = EmptyResults
       ]_vars

\* C18: when the device open call fails in GDXForceSensor.__init__ the
\* failure is caught and construction of the MVC experiment continues
\* without raising.
C18_ConstructionNeverRaises ==
    /\ mvc_exception = "none"
    /\ mvc_main # "raised"

\* The recorded samples whose elapsed time lies in [lo, hi].
WindowSamples(lo, hi) ==
    { i \in (DOMAIN mvc_time_data) \cap (DOMAIN mvc_force_data) :
        lo <= mvc_time_data[i] /\ mvc_time_data[i] <= hi }

RECURSIVE ForceSum(_)
ForceSum(samples) ==
    IF samples = {} THEN 0
    ELSE LET i == CHOOSE x \in samples : TRUE
         IN  mvc_force_data[i] + ForceSum(samples \ {i})

\* avg is the mean of the force values of the samples, None when there are
\* no samples.
IsMeanOf(avg, samples) ==
    IF samples = {} THEN avg = None
    ELSE /\ avg # None
         /\ avg[1].n * Cardinality(samples) = ForceSum(samples) * avg[1].d

\* C15: finish_experiment computes each window average as the mean of the
\* recorded force values whose elapsed time lies in [5,10] (trial 1) and
\* [20,25] (trial 2); the overall MVC is the mean of the two averages when
\* both windows have samples, the other window's average when exactly one
\* is empty, and the value stored for the motion is 0 when both are empty.
C15_FinishAverages ==
    [][ finish_experiment =>
          LET t1 == mvc_label'.trial1
              t2 == mvc_label'.trial2
              overall == mvc_label'.overall
          IN  /\ IsMeanOf(t1, WindowSamples(5, 10))
              /\ IsMeanOf(t2, WindowSamples(20, 25))
              /\ (t1 # None /\ t2 # None) =>
                    /\ overall # None
                    /\ REq(RAdd(overall[1], overall[1]), RAdd(t1[1], t2[1]))
              /\ (t1 # None /\ t2 = None) => overall = t1
              /\ (t1 = None /\ t2 # None) => overall = t2
              /\ (t1 = None /\ t2 = None) => overall = None
              /\ currentText \in DOMAIN results' =>
                    REq(results'[currentText],
                        IF overall = None THEN RInt(0) ELSE overall[1])
    ]_vars

\* C15 witness: a run has finished with samples in both windows and two
\* different window averages; the overall value shown is stored for the
\* motion.
C15_Witness ==
    /\ mvc_label.trial1 # None
    /\ mvc_label.trial2 # None
    /\ mvc_label.overall # None
    /\ ~REq(mvc_label.trial1[1], mvc_label.trial2[1])
    /\ RLt(RInt(0), mvc_label.trial1[1])
    /\ RLt(RInt(0), mvc_label.trial2[1])
    /\ currentText \in DOMAIN results
    /\ results[currentText] = mvc_label.overall[1]

\* A step in which the sensor worker of the MVC tool reads the device.
MvcWorkerReads == sensor_thread = "read" /\ sensor_thread' # "read"

\* A step in which the worker of gdxtest.py reads the device.
GdxtestWorkerReads == gdxtest_thread = "read" /\ gdxtest_thread' # "read"

\* C17: in the MVC tool and in gdxtest.py shutdown sets the stop flag,
\* waits for the worker thread to exit and then stops and closes the
\* device; in every interleaving (repeated stop_measurement and
\* GDXForceSensor.stop calls, the atexit hook) no worker reads the device
\* after it has been closed.
C17_NoReadAfterClose ==
    [][ /\ MvcWorkerReads => gdx_device = "started"
        /\ GdxtestWorkerReads => gdxtest_device = "started"
        /\ (gdx_device' = "closed") =>
              (stop_event /\ sensor_thread = "done" /\ sensor_thread' = "done")
        /\ (gdxtest_device' = "closed") =>
              (gdxtest_stop_event /\ gdxtest_thread = "done"
                                  /\ gdxtest_thread' = "done")
    ]_vars

\* C17 witness: both programs have shut down after their workers read the
\* device: in the MVC tool Stop was pressed and the atexit hook then ran
\* GDXForceSensor.stop a second time; in gdxtest.py the cleanup has run.
C17_Witness ==
    /\ mvc_main = "exited"
    /\ sensor_stop_event
    /\ force_thread = "exited"
    /\ gdx_device = "closed"
    /\ latest_value > 0
    /\ gdxtest_main = "exited"
    /\ gdxtest_device = "closed"
    /\ gdxtest_reads > 0

\* C19: the sensor-to-plot queue of gdxtest.py never holds more than 100
\* measurements; a measurement produced while the queue is full is dropped,
\* the queue is unchanged and the worker goes on without blocking; the
\* consumer takes the queued measurements in arrival order.
C19_BoundedQueueDropsNewest ==
    /\ [](Len(data_queue) <= QueueMaxsize)
    /\ [](\A i, j \in DOMAIN data_queue :
            i < j => data_queue[i][1] < data_queue[j][1])
    /\ [][ (GdxtestWorkerReads /\ gdxtest_reads' # gdxtest_reads
                               /\ Len(data_queue) = QueueMaxsize) =>
              (data_queue' = data_queue /\ gdxtest_thread' = "loop")
       ]_vars
    /\ [][ gdxtest_update =>
              /\ Len(data_queue') = Len(data_queue) - 1
              /\ \A i \in DOMAIN data_queue' :
                    /\ data_queue'[i] = data_queue[i + 1]
                    /\ data_queue'[i][1] > Head(data_queue)[1]
              /\ y_data' = Clip(Rat(Head(data_queue)[1], 50), RInt(0 - 1), RInt(1))
       ]_vars

\* C19 witness: measurement 101 arrived while the queue held measurements
\* 1 to 100 and was dropped; the consumer then took measurement 1.
C19_Witness ==
    /\ gdxtest_reads = QueueMaxsize + 1
    /\ Len(data_queue) = QueueMaxsize - 1
    /\ Head(data_queue) = << 2 >>
    /\ data_queue[Len(data_queue)] = << QueueMaxsize >>
    /\ y_data = Rat(1, 50)

\* C20: once experiment_ended is true no further row is appended to the
\* session log by any later event (timer tick, Start press, break callback
\* or window close).
C20_NoRowAfterEnd ==
    [][ experiment_ended => csv_log' = csv_log ]_vars


\* Number of entries of a trial list with the given grip and level.
Multiplicity(block, grip, mvc) ==
    Cardinality({ i \in DOMAIN block : block[i] = FormatTrialId(grip, mvc) })

\* C21: each of the two trial blocks holds exactly 60 trial ids, each of the
\* 12 (grip, level) combinations exactly 5 times, and no handler changes the
\* contents or the order of either block after construction.
C21_BlocksFixedAfterConstruction ==
    /\ [](\A block \in {trial_array1, trial_array2} :
            /\ Len(block) = 60
            /\ \A g \in DOMAIN GRIPS, m \in DOMAIN MVCS :
                  Multiplicity(block, GRIPS[g], MVCS[m]) = 5)
    /\ [][trial_array1' = trial_array1 /\ trial_array2' = trial_array2]_vars

\* C21 witness: the session ran through Start, the 60 trials of block 1,
\* the break, the resuming Start, the 60 trials of block 2 and the stop.
C21_Witness ==
    /\ experiment_ended
    /\ CountEvent("SectionStart") = 2
    /\ CountEvent("BreakStop") = 1
    /\ Len(TrialEndIds(1)) = 60
    /\ Len(TrialEndIds(2)) = 60
    /\ gdx_state = "closed"

\* The break has ended and Start has not been pressed since:
\* prepare_next_array left start_time at 0 and start_experiment has not yet
\* set it to time.time().
AwaitingResume == start_time = 0

IsTrialOrPhaseRow(r) == IsPhaseRow(r) \/ r.event \in {"TrialStart", "TrialEnd"}

\* C22: when the break ends the session is on block 2 with trial index 0
\* and section 2, and from then until Start is pressed no tick is processed
\* and no trial or phase event is logged.
C22_IdleAfterBreakUntilStart ==
    [][ /\ prepare_next_array =>
              /\ current_trial_array' = 2
              /\ current_trial_index' = 0
              /\ current_section' = 2
        /\ (AwaitingResume /\ AwaitingResume') =>
              /\ ~(Tick /\ experiment_running)
              /\ \A k \in DOMAIN NewRows : ~IsTrialOrPhaseRow(NewRows[k])
    ]_vars

\* C23: every TrialEnd row is preceded by a TrialStart row with the same
\* section and trial id with no other TrialEnd row between the two; so the
\* first trial of each block has a TrialStart row.
C23_TrialEndHasTrialStart ==
    \A k \in DOMAIN csv_log :
        csv_log[k].event = "TrialEnd" =>
            \E j \in 1..(k - 1) :
                /\ csv_log[j] = Row(csv_log[k].section, "TrialStart",
                                    csv_log[k].trial_id)
                /\ \A i \in (j + 1)..(k - 1) : csv_log[i].event # "TrialEnd"

\* C24: a phase-boundary event with offset b is logged for a trial only
\* when at least b seconds have elapsed since that trial's
\* trial_start_time.
C24_PhaseEventNotBeforeOffset ==
    [][ \A k \in DOMAIN NewRows :
          IsPhaseRow(NewRows[k]) =>
              time_elapsed' - trial_start_time
                  >= phase_events[PhaseIndex(NewRows[k].event)].boundary
    ]_vars

\* C25: a TrialEnd row is logged for a trial only when the trial has begun
\* and at least 30 seconds have passed since it began.
C25_TrialEndNotBefore30 ==
    [][ \A k \in DOMAIN NewRows :
          NewRows[k].event = "TrialEnd" =>
              /\ trial_began # NoneTime
              /\ now' - trial_began >= 30
    ]_vars

\* C26: every tick that reaches gdx.read() in update_plot finds the device
\* started: no read happens after stop_experiment has stopped and closed
\* the device.
C26_NoReadAfterDeviceClosed ==
    [][ (Tick /\ experiment_running) => gdx_state = "started" ]_vars

\* C27: once the window has been closed (closeEvent has returned) the
\* device opened in the constructor is stopped and closed.
C27_DeviceClosedWithWindow == window_closed => gdx_state = "closed"

\* Stop was pressed during a run and Start has not been pressed since: the
\* measurement timer is stopped while single-shot calls of the run are
\* still pending (in a session with one run).
StoppedRun == sensor_stop_event /\ ~mvc_timer_active /\ single_shots # << >>

\* C28: after Stop is pressed during a run no further phase transition of
\* that run takes place, the blink timer is not restarted, and no result of
\* the interrupted run is recorded into results or persisted.
C28_StopEndsRun ==
    [][ StoppedRun =>
          /\ phase' = phase
          /\ ~blink_timer_active'
          /\ results' = results
          /\ saved_rows' = saved_rows
    ]_vars

\* The dropdown text of the motion that was selected when the run in
\* progress was started.
StartedMotion == MOTIONS[started_motion + 1]

\* C29: finish_experiment records the overall average of a run under the
\* motion that was selected in the dropdown when the run was started, and
\* no result is ever held under the placeholder entry.
C29_RecordedUnderStartedMotion ==
    /\ [](MOTIONS[1] \notin DOMAIN results)
    /\ [][ (finish_experiment /\ saved_rows' = saved_rows) =>
             /\ DOMAIN results' = (DOMAIN results) \cup {StartedMotion}
             /\ \A k \in (DOMAIN results) \ {StartedMotion} :
                    results'[k] = results[k]
       ]_vars

\* C30: at most one run is in flight: a run has one single-shot call
\* pending from its Start to its finish_experiment, so the pending calls
\* never belong to two runs, and Start cannot begin a run while a call is
\* pending.
C30_OneRunInFlight ==
    /\ [](Len(single_shots) <= 1)
    /\ [][MvcRunStarts => single_shots = << >>]_vars

\* A step in which update_measurement records a sample.
RecordsSample == Len(mvc_time_data') = Len(mvc_time_data) + 1

\* C31: every sample recorded with an elapsed time in [5,10] is recorded
\* while the phase is trial1, and every sample with an elapsed time in
\* [20,25] while the phase is trial2.
C31_WindowSamplesInMatchingPhase ==
    [][ RecordsSample =>
          LET t == mvc_time_data'[Len(mvc_time_data')]
          IN  /\ (5 <= t /\ t <= 10) => phase = "trial1"
              /\ (20 <= t /\ t <= 25) => phase = "trial2"
    ]_vars

\* A step in which update_measurement records a sample while the phase is
\* a measurement phase, and one while it is any other phase.
MeasurementTick == RecordsSample /\ phase \in {"trial1", "trial2"}

OtherTick == RecordsSample /\ phase \notin {"trial1", "trial2"}

\* The force recorded by the step.
RecordedForce == mvc_force_data'[Len(mvc_force_data')]

\* C32: a tick in trial1 or trial2 empties force_queue and records the
\* value of the entry enqueued last (0 if the queue was empty); a tick in
\* any other phase records 0 and leaves force_queue unchanged.
C32_TickDrainsLastWriteWins ==
    [][ /\ MeasurementTick =>
              /\ force_queue' = EmptyQueue
              /\ RecordedForce = IF force_queue = EmptyQueue THEN 0
                                 ELSE force_queue[Len(force_queue)]
        /\ OtherTick =>
              /\ RecordedForce = 0
              /\ force_queue' = force_queue
    ]_vars

\* A tick in trial2 has drained the queue and recorded a sensor reading,
\* after ticks in other phases had recorded 0.
C32_Witness ==
    /\ phase = "trial2"
    /\ force_queue = EmptyQueue
    /\ Len(mvc_force_data) > 1
    /\ mvc_force_data[Len(mvc_force_data)] = 10
    /\ mvc_force_data[1] = 0

\* C35: the two hand-off queues of the MVC tool (GDXForceSensor.data_queue
\* and MVCExperiment.force_queue) hold fewer samples than a fixed bound in
\* every reachable state.
C35_HandoffQueuesBounded ==
    /\ Len(sensor_data_queue) < HandoffKeep
    /\ Len(force_queue) < HandoffKeep

\* A worker whose stop flag is set does not pass the test of its while loop
\* into another iteration.
NoIterationAfterStop ==
    /\ (stop_event /\ sensor_thread = "loop") => sensor_thread' # "read"
    /\ (sensor_stop_event /\ force_thread = "running") => force_thread' # "put"
    /\ (gdxtest_stop_event /\ gdxtest_thread = "loop") => gdxtest_thread' # "read"

\* C33: once a worker's stop flag is set the worker starts no further
\* iteration (the one in progress is the last) and exits, so the join that
\* waits for it returns; for GDXForceSensor._read_sensor_data,
\* MVCExperiment.sensor_reading_thread and gdxtest's sensor_reading_thread,
\* also when reads raise.
C33_WorkersExitAfterStop ==
    /\ [][NoIterationAfterStop]_vars
    /\ stop_event ~> (sensor_thread = "done")
    /\ sensor_stop_event ~> (force_thread = "exited")
    /\ gdxtest_stop_event ~> (gdxtest_thread = "done")
    /\ (mvc_main = "stop_join_force") ~> (mvc_main = "stop_join_sensor")
    /\ (mvc_main \in {"stop_join_sensor", "exit_join_sensor"})
           ~> (mvc_main \in {"events", "exited"})
    /\ (gdxtest_main = "join") ~> (gdxtest_main = "exited")

\* All three workers have exited after their flags were set and the three
\* joins have returned: Stop has come back to the event loop and gdxtest
\* has ended.
C33_Witness ==
    /\ stop_event /\ sensor_thread = "done"
    /\ sensor_stop_event /\ force_thread = "exited"
    /\ gdxtest_stop_event /\ gdxtest_thread = "done"
    /\ mvc_main = "events"
    /\ gdxtest_main = "exited"

\* The session has ended: stop_experiment has logged SectionStop for
\* section 2.
SessionEnded ==
    /\ experiment_ended
    /\ csv_log # << >>
    /\ csv_log[Len(csv_log)] = Row(2, "SectionStop", NoTrial)

BetweenBlocks ==
    << Row(1, "SectionStop", NoTrial), Row(1, "BreakStart", NoTrial),
       Row(1, "BreakStop", NoTrial), Row(2, "SectionStart", NoTrial) >>

\* Rows from..to of the log are trial and phase rows of one section.
BlockRows(from, to, section) ==
    /\ from <= to
    /\ \A k \in from..to :
          /\ IsTrialOrPhaseRow(csv_log[k])
          /\ csv_log[k].section = section

\* The log of a completed session.
CompleteLog ==
    \E p \in 3..(Len(csv_log) - 5) :
        /\ csv_log[1] = Row(1, "SectionStart", NoTrial)
        /\ BlockRows(2, p - 1, 1)
        /\ SubSeq(csv_log, p, p + 3) = BetweenBlocks
        /\ BlockRows(p + 4, Len(csv_log) - 1, 2)
        /\ csv_log[Len(csv_log)] = Row(2, "SectionStop", NoTrial)

\* C36: the log of a session run to completion without extra operator
\* input is SectionStart(1), the trial and phase rows of block 1,
\* SectionStop(1), BreakStart(1), BreakStop(1), SectionStart(2), the trial
\* and phase rows of block 2, SectionStop(2); every row carries the section
\* current when it was written, and the section changes only from 1 to 2.
C36_CompleteSessionLog ==
    /\ [](experiment_ended => CompleteLog)
    /\ [][ /\ \A k \in DOMAIN NewRows : NewRows[k].section = current_section
           /\ current_section' # current_section =>
                  current_section = 1 /\ current_section' = 2
       ]_vars

\* A session has run to completion and logged both blocks.
C36_Witness ==
    /\ experiment_ended
    /\ current_section = 2
    /\ CountEvent("TrialEnd") = 2 * TrialsPerBlock

\* What a tick on which gdx.read() returns m does to the outlet, the plot
\* buffers and the trial: a usable sample is the one the outlet was given
\* last; with anything else the outlet, the buffers, the trial index and
\* the trial state are as before.
TickPushes(m) ==
    IF ~m.none /\ Len(m.vals) = 4
    THEN outlet' = m.vals
    ELSE /\ outlet' = outlet
         /\ deques' = deques
         /\ current_trial_index' = current_trial_index
         /\ trial_in_progress' = trial_in_progress
         /\ current_trial_id' = current_trial_id
         /\ trial_start_time' = trial_start_time

=============================================================================
